---- MODULE Spec2Model ----
(***************************************************************************)
(* Verification model of the signal-detection and decision engine of the   *)
(* crypto analysis bot (src/bot.py, src/config.py, src/database.py).       *)
(*                                                                         *)
(* Numbers are exact: a comparison the code makes on floats (a / b * 100   *)
(* >= t) is made here on integers, cross-multiplied (a * 100 >= t * b),    *)
(* with the division by zero of the code kept as an explicit outcome.      *)
(* Time is in seconds.                                                     *)
(***************************************************************************)
EXTENDS Integers, Sequences, FiniteSets, TLC

(***************************************************************************)
(* Program constants                                                       *)
(***************************************************************************)
BASE_INTERVAL == 300
PRICE_CHANGE_THRESHOLD == 5
VOLUME_CHANGE_THRESHOLD == 10
VOLUME_WINDOW_MINUTES == 60
VOLUME_TREND_THRESHOLD == 15
SMART_MONEY_ZSCORE_THRESHOLD == 2
DAILY_WINDOW_MINUTES == 1440
max_retries == 3

\* self.reference_tokens, in the order of the target_chains dictionary
\* (the model tracks the first two of the thirteen assets)
reference_tokens == <<"BTC", "ETH">>

Tokens == {reference_tokens[i] : i \in DOMAIN reference_tokens}

(***************************************************************************)
(* Bounds of the model                                                     *)
(***************************************************************************)
\* number of iterations of the main loop that are explored
MaxCycles == 2

(***************************************************************************)
(* Helpers                                                                 *)
(***************************************************************************)
Abs(x) == IF x < 0 THEN -x ELSE x

RECURSIVE SumSeq(_)
SumSeq(s) ==
    IF s = <<>> THEN 0
    ELSE IF Len(s) = 1 THEN s[1]
    ELSE LET half == Len(s) \div 2
         IN SumSeq(SubSeq(s, 1, half)) + SumSeq(SubSeq(s, half + 1, Len(s)))

RECURSIVE SumSet(_, _)
\* sum of f[x] over the finite set S
SumSet(f, S) ==
    IF S = {} THEN 0
    ELSE LET x == CHOOSE y \in S : TRUE IN f[x] + SumSet(f, S \ {x})

\* a python dict: a function on the set of its keys
EmptyDict == <<>>

Has(d, k) == k \in DOMAIN d

(***************************************************************************)
(* The market_data table of the database: rows (timestamp, chain, volume)  *)
(* in insertion order.                                                     *)
(***************************************************************************)
\* CryptoDatabase.store_market_data: one committed row, stamped now
StoreMarketData(rows, chain, data, t) ==
    Append(rows, [timestamp |-> t, chain |-> chain, volume |-> data.volume])

\* volumes of the rows of chain stamped at or after window_start, most
\* recent first (ORDER BY timestamp DESC; rows are inserted in time order)
SelectVolumes(rows, chain, window_start) ==
    LET selected == SelectSeq(rows, LAMBDA r : /\ r.chain = chain
                                              /\ r.timestamp >= window_start)
    IN [i \in 1..Len(selected) |-> selected[Len(selected) + 1 - i].volume]

\* _get_historical_volume_data(chain, minutes)
GetHistoricalVolumeData(rows, chain, minutes, t) ==
    SelectVolumes(rows, chain, t - minutes * 60)

(***************************************************************************)
(* _analyze_volume_trend                                                   *)
(* volume_change is the fraction num / den (den > 0), in percent.          *)
(***************************************************************************)
\* _analyze_volume_trend reporting a window of zeros as insufficient data
AnalyzeVolumeTrendZeroInsufficient(current_volume, historical_volumes) ==
    IF historical_volumes = <<>>
    THEN [num |-> 0, den |-> 1, trend |-> "insufficient_data"]
    ELSE LET n == Len(historical_volumes)
             s == SumSeq(historical_volumes)
             num == 100 * (n * current_volume - s)
         IN IF s = 0
            THEN [num |-> 0, den |-> 1, trend |-> "insufficient_data"]
            ELSE [num |-> num, den |-> s,
                  trend |->
                    IF num >= VOLUME_TREND_THRESHOLD * s
                    THEN "significant_increase"
                    ELSE IF num <= -VOLUME_TREND_THRESHOLD * s
                    THEN "significant_decrease"
                    ELSE IF num >= 5 * s THEN "moderate_increase"
                    ELSE IF num <= -5 * s THEN "moderate_decrease"
                    ELSE "stable"]

\* _analyze_volume_trend with the thresholds themselves left out of the classes
AnalyzeVolumeTrendStrict(current_volume, historical_volumes) ==
    IF historical_volumes = <<>>
    THEN [num |-> 0, den |-> 1, trend |-> "insufficient_data"]
    ELSE LET n == Len(historical_volumes)
             s == SumSeq(historical_volumes)
             num == 100 * (n * current_volume - s)
         IN IF s = 0
            THEN [num |-> 0, den |-> 1, trend |-> "error"]
            ELSE [num |-> num, den |-> s,
                  trend |->
                    IF num > VOLUME_TREND_THRESHOLD * s
                    THEN "significant_increase"
                    ELSE IF num < -VOLUME_TREND_THRESHOLD * s
                    THEN "significant_decrease"
                    ELSE IF num > 5 * s THEN "moderate_increase"
                    ELSE IF num < -5 * s THEN "moderate_decrease"
                    ELSE "stable"]

\* _analyze_volume_trend reporting a window of zeros as stable
AnalyzeVolumeTrendZeroStable(current_volume, historical_volumes) ==
    IF historical_volumes = <<>>
    THEN [num |-> 0, den |-> 1, trend |-> "insufficient_data"]
    ELSE LET n == Len(historical_volumes)
             s == SumSeq(historical_volumes)
             num == 100 * (n * current_volume - s)
         IN IF s = 0
            THEN [num |-> 0, den |-> 1, trend |-> "stable"]
            ELSE [num |-> num, den |-> s,
                  trend |->
                    IF num >= VOLUME_TREND_THRESHOLD * s
                    THEN "significant_increase"
                    ELSE IF num <= -VOLUME_TREND_THRESHOLD * s
                    THEN "significant_decrease"
                    ELSE IF num >= 5 * s THEN "moderate_increase"
                    ELSE IF num <= -5 * s THEN "moderate_decrease"
                    ELSE "stable"]

\* lines 433-471
AnalyzeVolumeTrend(current_volume, historical_volumes) ==
    IF historical_volumes = <<>>
    THEN [num |-> 0, den |-> 1, trend |-> "insufficient_data"]
    ELSE LET n == Len(historical_volumes)
             s == SumSeq(historical_volumes)
             \* (current - s/n) / (s/n) * 100  =  100 * (n*current - s) / s
             num == 100 * (n * current_volume - s)
         IN IF s = 0
            THEN \* ZeroDivisionError, caught
                 [num |-> 0, den |-> 1, trend |-> "error"]
            ELSE [num |-> num, den |-> s,
                  trend |->
                    IF num >= VOLUME_TREND_THRESHOLD * s
                    THEN "significant_increase"
                    ELSE IF num <= -VOLUME_TREND_THRESHOLD * s
                    THEN "significant_decrease"
                    ELSE IF num >= 5 * s THEN "moderate_increase"
                    ELSE IF num <= -5 * s THEN "moderate_decrease"
                    ELSE "stable"]

(***************************************************************************)
(* _analyze_smart_money_indicators (the fields the trigger reads)          *)
(***************************************************************************)
\* the empty dict the except branch returns: every .get() on it is falsy
EmptySignal ==
    [empty |-> TRUE, abnormal_volume |-> FALSE, stealth_accumulation |-> FALSE,
     volume_z_score |-> [sign |-> 0, num |-> 0, den |-> 1]]

\* volume_z_score = (current - mean) / stdev as its sign and its square
\* num / den: with n rows of sum s,
\* z^2 = (n*current - s)^2 * (n-1) / sum (n*x - s)^2
VolumeZScore(current_volume, hourly_volumes) ==
    LET n == Len(hourly_volumes)
        s == SumSeq(hourly_volumes)
        dev2 == SumSeq([i \in 1..n |->
                    (n * hourly_volumes[i] - s) * (n * hourly_volumes[i] - s)])
        Sign(x) == IF x > 0 THEN 1 ELSE IF x < 0 THEN -1 ELSE 0
    IN IF n = 0
       THEN [sign |-> 0, num |-> 0, den |-> 1]     \* mean = current, std = 1
       ELSE IF n = 1                                \* std = 1
       THEN [sign |-> Sign(current_volume - s),
             num |-> (current_volume - s) * (current_volume - s), den |-> 1]
       ELSE IF dev2 = 0
       THEN [sign |-> 0, num |-> 0, den |-> 1]     \* std = 0, z = 0
       ELSE [sign |-> Sign(n * current_volume - s),
             num |-> (n * current_volume - s) * (n * current_volume - s)
                        * (n - 1),
             den |-> dev2]

\* line 540 comparing the squared z-score with the threshold itself
AbnormalVolumeUnsquared(current_volume, hourly_volumes) ==
    LET n == Len(hourly_volumes)
        s == SumSeq(hourly_volumes)
        dev2 == SumSeq([i \in 1..n |->
                    (n * hourly_volumes[i] - s) * (n * hourly_volumes[i] - s)])
    IN IF n = 0 THEN FALSE
       ELSE IF n = 1
       THEN (current_volume - s) * (current_volume - s)
               > SMART_MONEY_ZSCORE_THRESHOLD
       ELSE IF dev2 = 0 THEN FALSE
       ELSE (n * current_volume - s) * (n * current_volume - s) * (n - 1)
               > SMART_MONEY_ZSCORE_THRESHOLD * dev2

\* line 540 with >= in place of >
AbnormalVolumeInclusive(current_volume, hourly_volumes) ==
    LET n == Len(hourly_volumes)
        s == SumSeq(hourly_volumes)
        dev2 == SumSeq([i \in 1..n |->
                    (n * hourly_volumes[i] - s) * (n * hourly_volumes[i] - s)])
        thr2 == SMART_MONEY_ZSCORE_THRESHOLD * SMART_MONEY_ZSCORE_THRESHOLD
    IN IF n = 0 THEN FALSE
       ELSE IF n = 1
       THEN Abs(current_volume - s) >= SMART_MONEY_ZSCORE_THRESHOLD
       ELSE IF dev2 = 0 THEN FALSE
       ELSE (n * current_volume - s) * (n * current_volume - s) * (n - 1)
               >= thr2 * dev2

\* |z| > threshold, z = (current - mean) / stdev, on integers:
\* with n rows of sum s, (n*current - s)^2 * (n-1) > threshold^2 * sum (n*x - s)^2
AbnormalVolume(current_volume, hourly_volumes) ==
    LET n == Len(hourly_volumes)
        s == SumSeq(hourly_volumes)
        dev2 == SumSeq([i \in 1..n |->
                    (n * hourly_volumes[i] - s) * (n * hourly_volumes[i] - s)])
        thr2 == SMART_MONEY_ZSCORE_THRESHOLD * SMART_MONEY_ZSCORE_THRESHOLD
    IN IF n = 0 THEN FALSE                    \* mean = current, std = 1, z = 0
       ELSE IF n = 1                           \* std = 1
       THEN Abs(current_volume - s) > SMART_MONEY_ZSCORE_THRESHOLD
       ELSE IF dev2 = 0 THEN FALSE             \* std = 0, z = 0
       ELSE (n * current_volume - s) * (n * current_volume - s) * (n - 1)
               > thr2 * dev2

\* line 507 with <= 2 in place of < 2
AnalyzeSmartMoneyIndicatorsInclusive(token_data, hourly_volumes, daily_volumes) ==
    LET current_volume == token_data.volume
        nh == Len(hourly_volumes)
        nd == Len(daily_volumes)
        sh == IF nh = 0 THEN current_volume ELSE SumSeq(hourly_volumes)
        sd == IF nd = 0 THEN current_volume ELSE SumSeq(daily_volumes)
        cd == IF nd = 0 THEN 1 ELSE nd
        change == token_data.price_change_percentage_24h
    IN IF "price_change_percentage_24h" \notin DOMAIN token_data
          \/ sh = 0 \/ sd = 0
       THEN EmptySignal
       ELSE [empty |-> FALSE,
             abnormal_volume |-> AbnormalVolume(current_volume, hourly_volumes),
             stealth_accumulation |->
                 Abs(change) <= 2 /\ 2 * current_volume * cd > 3 * sd,
             volume_z_score |-> VolumeZScore(current_volume, hourly_volumes)]

\* lines 541-542 guarded against a zero average instead of raising
AnalyzeSmartMoneyIndicatorsGuarded(token_data, hourly_volumes, daily_volumes) ==
    LET current_volume == token_data.volume
        nh == Len(hourly_volumes)
        nd == Len(daily_volumes)
        sd == IF nd = 0 THEN current_volume ELSE SumSeq(daily_volumes)
        cd == IF nd = 0 THEN 1 ELSE nd
        change == token_data.price_change_percentage_24h
    IN IF "price_change_percentage_24h" \notin DOMAIN token_data
       THEN EmptySignal
       ELSE [empty |-> FALSE,
             abnormal_volume |-> AbnormalVolume(current_volume, hourly_volumes),
             stealth_accumulation |->
                 Abs(change) < 2 /\ 2 * current_volume * cd > 3 * sd,
             volume_z_score |-> VolumeZScore(current_volume, hourly_volumes)]

\* lines 473-548; token_data without a 24h change raises KeyError at line
\* 500, a zero average ZeroDivisionError at line 541 or 542, both caught
AnalyzeSmartMoneyIndicators(token_data, hourly_volumes, daily_volumes) ==
    LET current_volume == token_data.volume
        nh == Len(hourly_volumes)
        nd == Len(daily_volumes)
        \* avg = mean(volumes) if volumes else current_volume, as sum / count
        sh == IF nh = 0 THEN current_volume ELSE SumSeq(hourly_volumes)
        sd == IF nd = 0 THEN current_volume ELSE SumSeq(daily_volumes)
        cd == IF nd = 0 THEN 1 ELSE nd
        change == token_data.price_change_percentage_24h
    IN IF "price_change_percentage_24h" \notin DOMAIN token_data
          \/ sh = 0 \/ sd = 0
       THEN EmptySignal
       ELSE [empty |-> FALSE,
             abnormal_volume |-> AbnormalVolume(current_volume, hourly_volumes),
             \* abs(change) < 2 and current > avg_daily * 1.5
             stealth_accumulation |->
                 Abs(change) < 2 /\ 2 * current_volume * cd > 3 * sd,
             volume_z_score |-> VolumeZScore(current_volume, hourly_volumes)]

\* _get_historical_volume_data with the timestamps it returns: the rows of
\* chain stamped at or after window_start, most recent first
SelectEntries(rows, chain, window_start) ==
    LET selected == SelectSeq(rows, LAMBDA r : /\ r.chain = chain
                                              /\ r.timestamp >= window_start)
    IN [i \in 1..Len(selected) |->
           [timestamp |-> selected[Len(selected) + 1 - i].timestamp,
            volume |-> selected[Len(selected) + 1 - i].volume]]

\* line 513: the volume stored within the hour that starts at hour_window,
\* both ends included
HourVolume(hourly_data, hour_window) ==
    SumSeq([k \in DOMAIN hourly_data |->
               IF /\ hour_window <= hourly_data[k].timestamp
                  /\ hourly_data[k].timestamp <= hour_window + 3600
               THEN hourly_data[k].volume ELSE 0])

\* lines 509-514: volume_profile, entry i for the key hour_i; clock[i] is
\* what datetime.now() returns in round i of the loop; no entry at all
\* for an empty hourly window
VolumeProfile(hourly_data, clock) ==
    IF hourly_data = <<>> THEN <<>>
    ELSE [i \in 1..24 |-> HourVolume(hourly_data, clock[i] - i * 3600)]

\* lines 517-524: the slots holding more than 15% of the slot total, in
\* the order of the dict; (vol / total) * 100 > 15 as vol * 100 > 15 * total
UnusualHours(volume_profile) ==
    LET total_volume == SumSeq(volume_profile)
    IN IF total_volume > 0
       THEN SelectSeq([i \in DOMAIN volume_profile |-> i],
                      LAMBDA i : volume_profile[i] * 100 > 15 * total_volume)
       ELSE <<>>

\* line 480 asking for the rows of the last 24 hours
UnusualTradingHoursOverDay(rows, chain, t, clock) ==
    LET hourly_data == SelectEntries(rows, chain, t - 60 * 60)
        volume_profile ==
            VolumeProfile(SelectEntries(rows, chain, t - 1440 * 60), clock)
    IN [hourly_data |-> hourly_data, volume_profile |-> volume_profile,
        unusual_trading_hours |-> UnusualHours(volume_profile)]

\* lines 480 and 509-524: the hourly window read at t, the profile built
\* from it and the list put in the signal
UnusualTradingHours(rows, chain, t, clock) ==
    LET hourly_data == SelectEntries(rows, chain, t - 60 * 60)
        volume_profile == VolumeProfile(hourly_data, clock)
    IN [hourly_data |-> hourly_data, volume_profile |-> volume_profile,
        unusual_trading_hours |-> UnusualHours(volume_profile)]

(***************************************************************************)
(* _analyze_token_vs_market (the fields the trigger reads)                 *)
(* vs_market_avg_change is the fraction num / den (den > 0).               *)
(***************************************************************************)
EmptyComparison ==
    [empty |-> TRUE, num |-> 0, den |-> 1, outperforming_market |-> FALSE,
     correlations |-> EmptyDict, stored |-> FALSE]

\* lines 593-595 calling two changes correlated only when they are also within 3 points
AnalyzeTokenVsMarketAmongByMagnitude(token, market_data, tracked) ==
    IF ~Has(market_data, token) THEN EmptyComparison
    ELSE LET peers == {t \in tracked : t # token /\ Has(market_data, t)}
             k == Cardinality(peers)
             change == market_data[token].price_change_percentage_24h
             changes == [t \in peers |-> market_data[t].price_change_percentage_24h]
             Direction(x) == IF x > 0 THEN 1 ELSE -1
             \* performance_diff = change - sum/den = (den*change - sum) / den
             den == k
             num == den * change - SumSet(changes, peers)
         IN IF k = 0
            THEN \* statistics.mean([]) raises StatisticsError, caught
                 EmptyComparison
            ELSE [empty |-> FALSE, num |-> num, den |-> den,
                  outperforming_market |-> num > 0,
                  correlations |->
                      [t \in peers |-> Direction(change) = Direction(changes[t])
                             /\ Abs(change - changes[t]) <= 3],
                  stored |-> TRUE]

\* lines 563-567 averaging over every tracked peer, an absent one counting as 0
AnalyzeTokenVsMarketAmongCountsAbsent(token, market_data, tracked) ==
    IF ~Has(market_data, token) THEN EmptyComparison
    ELSE LET peers == {t \in tracked : t # token /\ Has(market_data, t)}
             k == Cardinality(peers)
             change == market_data[token].price_change_percentage_24h
             changes == [t \in peers |-> market_data[t].price_change_percentage_24h]
             Direction(x) == IF x > 0 THEN 1 ELSE -1
             \* performance_diff = change - sum/den = (den*change - sum) / den
             den == Cardinality(tracked \ {token})
             num == den * change - SumSet(changes, peers)
         IN IF k = 0
            THEN \* statistics.mean([]) raises StatisticsError, caught
                 EmptyComparison
            ELSE [empty |-> FALSE, num |-> num, den |-> den,
                  outperforming_market |-> num > 0,
                  correlations |->
                      [t \in peers |-> Direction(change) = Direction(changes[t])],
                  stored |-> TRUE]

\* lines 550-624 for a bot that tracks the tokens of tracked; stored says
\* whether store_token_market_comparison was reached (line 607)
AnalyzeTokenVsMarketAmong(token, market_data, tracked) ==
    IF ~Has(market_data, token) THEN EmptyComparison
    ELSE LET peers == {t \in tracked : t # token /\ Has(market_data, t)}
             k == Cardinality(peers)
             change == market_data[token].price_change_percentage_24h
             changes == [t \in peers |-> market_data[t].price_change_percentage_24h]
             Direction(x) == IF x > 0 THEN 1 ELSE -1
             \* performance_diff = change - sum/den = (den*change - sum) / den
             den == k
             num == den * change - SumSet(changes, peers)
         IN IF k = 0
            THEN \* statistics.mean([]) raises StatisticsError, caught
                 EmptyComparison
            ELSE [empty |-> FALSE, num |-> num, den |-> den,
                  outperforming_market |-> num > 0,
                  correlations |->
                      [t \in peers |-> Direction(change) = Direction(changes[t])],
                  stored |-> TRUE]

\* _analyze_token_vs_market with self.reference_tokens
AnalyzeTokenVsMarket(token, market_data) ==
    AnalyzeTokenVsMarketAmong(token, market_data, Tokens)

(***************************************************************************)
(* _should_post_update                                                     *)
(* A trigger reason is a tuple of strings: <<"price_change", token>>,      *)
(* <<"volume_trend", token, trend>>, <<"regular_interval">>; None is <<>>. *)
(* The result says whether the call raised (ZeroDivisionError on a zero    *)
(* baseline price or volume), what it returned, and the retained snapshot  *)
(* it leaves.                                                              *)
(***************************************************************************)
None == <<>>

\* abs((new - old) / old * 100) >= threshold, for old > 0
PercentChangeAtLeast(new, old, threshold) ==
    Abs(new - old) * 100 >= threshold * Abs(old)

\* lines 944-964: the rolling window volume trend
VolumeTrendReason(token, new_data, rows, t) ==
    LET historical_volume ==
            GetHistoricalVolumeData(rows, token, VOLUME_WINDOW_MINUTES, t)
        res == AnalyzeVolumeTrend(new_data[token].volume, historical_volume)
    IN IF historical_volume # <<>>
          /\ res.trend \in {"significant_increase", "significant_decrease"}
       THEN <<"volume_trend", token, res.trend>>
       ELSE None

\* lines 966-971
SmartMoneyReason(token, new_data, rows, t) ==
    LET smart_money ==
            AnalyzeSmartMoneyIndicators(new_data[token],
                GetHistoricalVolumeData(rows, token, 60, t),
                GetHistoricalVolumeData(rows, token, DAILY_WINDOW_MINUTES, t))
    IN IF smart_money.abnormal_volume \/ smart_money.stealth_accumulation
       THEN <<"smart_money", token>>
       ELSE None

\* lines 973-978: outperforming and abs(vs_market_avg_change) > 5.0
OutperformingReason(token, new_data) ==
    LET vs_market == AnalyzeTokenVsMarket(token, new_data)
    IN IF vs_market.outperforming_market
          /\ Abs(vs_market.num) > 5 * vs_market.den
       THEN <<"outperforming_market", token>>
       ELSE None

\* the checks of lines 934-942 with the volume delta tested before the price
TokenReasonVolumeFirst(token, new_data, last, rows, t) ==
    IF PercentChangeAtLeast(new_data[token].volume,
                            last[token].volume, VOLUME_CHANGE_THRESHOLD)
    THEN <<"volume_change", token>>
    ELSE IF PercentChangeAtLeast(new_data[token].current_price,
                                 last[token].current_price,
                                 PRICE_CHANGE_THRESHOLD)
    THEN <<"price_change", token>>
    ELSE LET trend == VolumeTrendReason(token, new_data, rows, t)
             smart == SmartMoneyReason(token, new_data, rows, t)
         IN IF trend # None THEN trend
            ELSE IF smart # None THEN smart
            ELSE OutperformingReason(token, new_data)

\* lines 934-978: the checks made for a token present in both snapshots
TokenReason(token, new_data, last, rows, t) ==
    IF PercentChangeAtLeast(new_data[token].current_price,
                            last[token].current_price, PRICE_CHANGE_THRESHOLD)
    THEN <<"price_change", token>>
    ELSE IF PercentChangeAtLeast(new_data[token].volume,
                                 last[token].volume, VOLUME_CHANGE_THRESHOLD)
    THEN <<"volume_change", token>>
    ELSE LET trend == VolumeTrendReason(token, new_data, rows, t)
             smart == SmartMoneyReason(token, new_data, rows, t)
         IN IF trend # None THEN trend
            ELSE IF smart # None THEN smart
            ELSE OutperformingReason(token, new_data)

\* line 983 with the interval reached one second early
IntervalReasonEarly(t, check_time) ==
    IF t - check_time >= BASE_INTERVAL - 1 THEN <<"regular_interval">>
    ELSE None

\* line 983 with a strict comparison
IntervalReasonStrict(t, check_time) ==
    IF t - check_time > BASE_INTERVAL THEN <<"regular_interval">> ELSE None

\* lines 980-985
IntervalReason(t, check_time) ==
    IF t - check_time >= BASE_INTERVAL THEN <<"regular_interval">> ELSE None

\* lines 910-912 without the assignment of line 911
ShouldPostUpdateInitialNotStored(token, new_data, last, rows, t, check_time) ==
    IF last = EmptyDict
    THEN [raised |-> FALSE, should_post |-> TRUE,
          trigger_reason |-> <<"initial_post">>, last_market_data |-> last]
    ELSE IF Has(new_data, token) /\ Has(last, token)
            /\ (last[token].current_price = 0 \/ last[token].volume = 0)
    THEN [raised |-> TRUE, should_post |-> FALSE,
          trigger_reason |-> None, last_market_data |-> last]
    ELSE LET first == IF Has(new_data, token) /\ Has(last, token)
                      THEN TokenReason(token, new_data, last, rows, t)
                      ELSE None
             trigger_reason == IF first # None THEN first
                               ELSE IntervalReason(t, check_time)
             should_post == trigger_reason # None
         IN [raised |-> FALSE, should_post |-> should_post,
             trigger_reason |-> trigger_reason,
             last_market_data |-> IF should_post THEN new_data ELSE last]

\* lines 987-989 with the assignment of line 989 made unconditionally
ShouldPostUpdateAlwaysStores(token, new_data, last, rows, t, check_time) ==
    IF last = EmptyDict
    THEN [raised |-> FALSE, should_post |-> TRUE,
          trigger_reason |-> <<"initial_post">>, last_market_data |-> new_data]
    ELSE IF Has(new_data, token) /\ Has(last, token)
            /\ (last[token].current_price = 0 \/ last[token].volume = 0)
    THEN [raised |-> TRUE, should_post |-> FALSE,
          trigger_reason |-> None, last_market_data |-> last]
    ELSE LET first == IF Has(new_data, token) /\ Has(last, token)
                      THEN TokenReason(token, new_data, last, rows, t)
                      ELSE None
             trigger_reason == IF first # None THEN first
                               ELSE IntervalReason(t, check_time)
             should_post == trigger_reason # None
         IN [raised |-> FALSE, should_post |-> should_post,
             trigger_reason |-> trigger_reason,
             last_market_data |-> new_data]

\* lines 987-989 with only the evaluated asset's entry replaced
ShouldPostUpdateStoresAsset(token, new_data, last, rows, t, check_time) ==
    IF last = EmptyDict
    THEN [raised |-> FALSE, should_post |-> TRUE,
          trigger_reason |-> <<"initial_post">>, last_market_data |-> new_data]
    ELSE IF Has(new_data, token) /\ Has(last, token)
            /\ (last[token].current_price = 0 \/ last[token].volume = 0)
    THEN [raised |-> TRUE, should_post |-> FALSE,
          trigger_reason |-> None, last_market_data |-> last]
    ELSE LET first == IF Has(new_data, token) /\ Has(last, token)
                      THEN TokenReason(token, new_data, last, rows, t)
                      ELSE None
             trigger_reason == IF first # None THEN first
                               ELSE IntervalReason(t, check_time)
             should_post == trigger_reason # None
         IN [raised |-> FALSE, should_post |-> should_post,
             trigger_reason |-> trigger_reason,
             last_market_data |->
                 IF should_post /\ Has(new_data, token) /\ Has(last, token)
                 THEN [last EXCEPT ![token] = new_data[token]]
                 ELSE IF should_post THEN new_data ELSE last]

\* lines 987-989 without the assignment of line 989: only the initial
\* post sets the baseline
ShouldPostUpdateKeepsBaseline(token, new_data, last, rows, t, check_time) ==
    IF last = EmptyDict
    THEN [raised |-> FALSE, should_post |-> TRUE,
          trigger_reason |-> <<"initial_post">>, last_market_data |-> new_data]
    ELSE IF Has(new_data, token) /\ Has(last, token)
            /\ (last[token].current_price = 0 \/ last[token].volume = 0)
    THEN [raised |-> TRUE, should_post |-> FALSE,
          trigger_reason |-> None, last_market_data |-> last]
    ELSE LET first == IF Has(new_data, token) /\ Has(last, token)
                      THEN TokenReason(token, new_data, last, rows, t)
                      ELSE None
             trigger_reason == IF first # None THEN first
                               ELSE IntervalReason(t, check_time)
             should_post == trigger_reason # None
         IN [raised |-> FALSE, should_post |-> should_post,
             trigger_reason |-> trigger_reason,
             last_market_data |-> last]

\* line 917 nesting only the two delta checks under the baseline test:
\* trend, smart money and outperformance are checked for every asset of
\* the snapshot
ShouldPostUpdateChecksNewAsset(token, new_data, last, rows, t, check_time) ==
    IF last = EmptyDict
    THEN [raised |-> FALSE, should_post |-> TRUE,
          trigger_reason |-> <<"initial_post">>, last_market_data |-> new_data]
    ELSE IF Has(new_data, token) /\ Has(last, token)
            /\ (last[token].current_price = 0 \/ last[token].volume = 0)
    THEN [raised |-> TRUE, should_post |-> FALSE,
          trigger_reason |-> None, last_market_data |-> last]
    ELSE LET trend == VolumeTrendReason(token, new_data, rows, t)
             smart == SmartMoneyReason(token, new_data, rows, t)
             first == IF Has(new_data, token) /\ Has(last, token)
                      THEN TokenReason(token, new_data, last, rows, t)
                      ELSE IF ~Has(new_data, token) THEN None
                      ELSE IF trend # None THEN trend
                      ELSE IF smart # None THEN smart
                      ELSE OutperformingReason(token, new_data)
             trigger_reason == IF first # None THEN first
                               ELSE IntervalReason(t, check_time)
             should_post == trigger_reason # None
         IN [raised |-> FALSE, should_post |-> should_post,
             trigger_reason |-> trigger_reason,
             last_market_data |-> IF should_post THEN new_data ELSE last]

\* lines 905-994
ShouldPostUpdate(token, new_data, last, rows, t, check_time) ==
    IF last = EmptyDict
    THEN [raised |-> FALSE, should_post |-> TRUE,
          trigger_reason |-> <<"initial_post">>, last_market_data |-> new_data]
    ELSE IF Has(new_data, token) /\ Has(last, token)
            /\ (last[token].current_price = 0 \/ last[token].volume = 0)
    THEN \* the division raises before anything is decided or stored
         [raised |-> TRUE, should_post |-> FALSE,
          trigger_reason |-> None, last_market_data |-> last]
    ELSE LET first == IF Has(new_data, token) /\ Has(last, token)
                      THEN TokenReason(token, new_data, last, rows, t)
                      ELSE None
             trigger_reason == IF first # None THEN first
                               ELSE IntervalReason(t, check_time)
             should_post == trigger_reason # None
         IN [raised |-> FALSE, should_post |-> should_post,
             trigger_reason |-> trigger_reason,
             last_market_data |-> IF should_post THEN new_data ELSE last]

(***************************************************************************)
(* Prediction tracking                                                     *)
(***************************************************************************)
MAX_PREDICTIONS == 20
DAY_SECONDS == 86400

\* sentiment_map, doubled so that recovering (0.5) stays an integer
SentimentWeight2(mood) ==
    CASE mood = "bullish" -> 2
      [] mood = "bearish" -> -2
      [] mood = "recovering" -> 1
      [] OTHER -> 0

\* _validate_past_prediction counting a move of exactly 2% as wrong
ValidatePastPredictionInclusive(prediction, current_prices) ==
    IF \E tk \in DOMAIN prediction.prices :
          /\ Has(current_prices, tk)
          /\ prediction.prices[tk] > 0
          /\ SentimentWeight2(prediction.sentiment)
                 * (current_prices[tk] - prediction.prices[tk]) * 100
               <= -2 * 2 * prediction.prices[tk]
    THEN "wrong" ELSE "right"

\* _validate_past_prediction: wrong iff weight * percent_change < -2 for
\* some token of the record that is priced now and was priced above 0
ValidatePastPrediction(prediction, current_prices) ==
    IF \E tk \in DOMAIN prediction.prices :
          /\ Has(current_prices, tk)
          /\ prediction.prices[tk] > 0
          /\ SentimentWeight2(prediction.sentiment)
                 * (current_prices[tk] - prediction.prices[tk]) * 100
               < -2 * 2 * prediction.prices[tk]
    THEN "wrong" ELSE "right"

\* _get_spicy_callback validating every record of the window again
ResolvePendingAgain(predictions, token, current_prices, t) ==
    [i \in DOMAIN predictions |->
        LET p == predictions[i]
        IN IF p.timestamp > t - DAY_SECONDS /\ p.token = token
           THEN [p EXCEPT !.outcome = ValidatePastPrediction(p, current_prices)]
           ELSE p]

\* _get_spicy_callback, its effect on the buffer: the pending records of
\* token made within 24 hours are resolved against current_prices
ResolvePending(predictions, token, current_prices, t) ==
    [i \in DOMAIN predictions |->
        LET p == predictions[i]
        IN IF p.timestamp > t - DAY_SECONDS /\ p.token = token
              /\ p.outcome = "pending"
           THEN [p EXCEPT !.outcome = ValidatePastPrediction(p, current_prices)]
           ELSE p]

\* _get_spicy_callback referring to the first wrong record of the window
GetSpicyCallbackFirst(predictions, token, current_prices, t) ==
    LET resolved == ResolvePending(predictions, token, current_prices, t)
        wrong_predictions ==
            SelectSeq(resolved, LAMBDA p : /\ p.timestamp > t - DAY_SECONDS
                                           /\ p.token = token
                                           /\ p.outcome = "wrong")
    IN IF wrong_predictions = <<>> THEN None
       ELSE LET worst_pred == wrong_predictions[1]
                hours == (t - worst_pred.timestamp) \div 3600
            IN [timestamp |-> worst_pred.timestamp,
                token |-> token,
                prediction |-> worst_pred.prediction,
                time_ago |-> IF hours = 0 THEN 1 ELSE hours]

\* _get_spicy_callback, its return value: None, or the wrong record of
\* token that was made last within 24 hours and its age in whole hours
\* (1 when below an hour); the phrasing picked at line 770 is left out
GetSpicyCallback(predictions, token, current_prices, t) ==
    LET resolved == ResolvePending(predictions, token, current_prices, t)
        wrong_predictions ==
            SelectSeq(resolved, LAMBDA p : /\ p.timestamp > t - DAY_SECONDS
                                           /\ p.token = token
                                           /\ p.outcome = "wrong")
    IN IF wrong_predictions = <<>> THEN None
       ELSE LET worst_pred == wrong_predictions[Len(wrong_predictions)]
                hours == (t - worst_pred.timestamp) \div 3600
            IN [timestamp |-> worst_pred.timestamp,
                token |-> token,
                prediction |-> worst_pred.prediction,
                time_ago |-> IF hours = 0 THEN 1 ELSE hours]

\* the tail of s from index k on
Drop(s, k) == SubSeq(s, k + 1, Len(s))

\* _track_prediction trimming from the wrong end: the first
\* MAX_PREDICTIONS records are kept
TrackPredictionKeepsFirst(predictions, token, analysis, mood, price, t) ==
    LET appended == Append(predictions,
                       [timestamp |-> t, token |-> token, prediction |-> analysis,
                        prices |-> (token :> price), sentiment |-> mood,
                        outcome |-> "pending"])
        young == SelectSeq(appended, LAMBDA p : t - p.timestamp < DAY_SECONDS)
    IN IF Len(young) > MAX_PREDICTIONS
       THEN SubSeq(young, 1, MAX_PREDICTIONS)
       ELSE young

\* _track_prediction keeping the records that are exactly 24 hours old
TrackPredictionKeepsDayOld(predictions, token, analysis, mood, price, t) ==
    LET appended == Append(predictions,
                       [timestamp |-> t, token |-> token, prediction |-> analysis,
                        prices |-> (token :> price), sentiment |-> mood,
                        outcome |-> "pending"])
        young == SelectSeq(appended, LAMBDA p : t - p.timestamp <= DAY_SECONDS)
    IN IF Len(young) > MAX_PREDICTIONS
       THEN Drop(young, Len(young) - MAX_PREDICTIONS)
       ELSE young

\* _track_prediction: append, keep the records younger than 24 hours,
\* then keep the last MAX_PREDICTIONS
TrackPrediction(predictions, token, analysis, mood, price, t) ==
    LET appended == Append(predictions,
                       [timestamp |-> t, token |-> token, prediction |-> analysis,
                        prices |-> (token :> price), sentiment |-> mood,
                        outcome |-> "pending"])
        young == SelectSeq(appended, LAMBDA p : t - p.timestamp < DAY_SECONDS)
    IN IF Len(young) > MAX_PREDICTIONS
       THEN Drop(young, Len(young) - MAX_PREDICTIONS)
       ELSE young

PredictionRecord(token, analysis, mood, price, t) ==
    [timestamp |-> t, token |-> token, prediction |-> analysis,
     prices |-> (token :> price), sentiment |-> mood, outcome |-> "pending"]

\* an interrupt inside _track_prediction with the record appended one key
\* at a time
InterruptedTrackFieldwise(predictions, token, analysis, mood, price, t) ==
    {predictions,
     Append(predictions, [timestamp |-> t, token |-> token]),
     Append(predictions, PredictionRecord(token, analysis, mood, price, t)),
     TrackPrediction(predictions, token, analysis, mood, price, t)}

\* the buffers a KeyboardInterrupt inside _track_prediction can leave
\* (lines 690-705): nothing appended yet, the record appended and the
\* buffer not yet pruned, or the call complete
InterruptedTrack(predictions, token, analysis, mood, price, t) ==
    {predictions,
     Append(predictions, PredictionRecord(token, analysis, mood, price, t)),
     TrackPrediction(predictions, token, analysis, mood, price, t)}

(***************************************************************************)
(* Texts and the duplicate filter                                          *)
(* An analysis is a sequence of words; a formatted tweet is the analysis   *)
(* followed by a blank line and a hashtag block that starts with #token.   *)
(* pad tells whether whitespace surrounds the text.                        *)
(***************************************************************************)
\* _format_tweet_analysis
FormatTweetAnalysis(token, analysis) ==
    [body |-> analysis, tags |-> token, pad |-> FALSE]

\* str.strip(): the surrounding whitespace is removed, nothing else
Strip(text) == [text EXCEPT !.pad = FALSE]

\* str.lower() on a word: the capitalised words of the texts explored are
\* "A" and "B"
Lower(word) ==
    CASE word = "A" -> "a"
      [] word = "B" -> "b"
      [] OTHER -> word

\* lines 166-172: the text before "\n\n#", lowercased, split into words
WordSet(text) == {Lower(text.body[i]) : i \in DOMAIN text.body}

Max(a, b) == IF a >= b THEN a ELSE b

\* the SELECT of lines 156-160 without its lower bound
PostsBefore(posted, from, to) ==
    SelectSeq(posted, LAMBDA r : r.timestamp < to)

\* rows of posted_content stamped in [from, to)
PostsBetween(posted, from, to) ==
    SelectSeq(posted, LAMBDA r : r.timestamp >= from /\ r.timestamp < to)

\* line 179 with >= in place of >
HighlySimilarInclusive(new_tweet, post) ==
    LET new_words == WordSet(new_tweet)
        post_words == WordSet(post)
    IN /\ new_words # {} /\ post_words # {}
       /\ 100 * Cardinality(new_words \cap post_words)
            >= 85 * Max(Cardinality(new_words), Cardinality(post_words))

\* word overlap / max(word counts) > 0.85
HighlySimilar(new_tweet, post) ==
    LET new_words == WordSet(new_tweet)
        post_words == WordSet(post)
    IN /\ new_words # {} /\ post_words # {}
       /\ 100 * Cardinality(new_words \cap post_words)
            > 85 * Max(Cardinality(new_words), Cardinality(post_words))

\* line 151 comparing the raw texts, neither of them stripped
IsDuplicateAnalysisNoStrip(new_tweet, last_posts, posted, utc, db_error) ==
    IF db_error THEN FALSE
    ELSE LET very_recent_posts ==
                 SelectSeq(posted, LAMBDA r : r.timestamp >= utc - 15 * 60)
             recent_posts == PostsBetween(posted, utc - 30 * 60, utc - 15 * 60)
         IN \/ \E i \in DOMAIN very_recent_posts :
                  very_recent_posts[i].content = new_tweet
            \/ \E i \in DOMAIN recent_posts :
                  HighlySimilar(new_tweet, recent_posts[i].content)
            \/ \E i \in DOMAIN last_posts :
                  Strip(last_posts[i]) = Strip(new_tweet)

\* lines 194-198 returning True: the check fails closed
IsDuplicateAnalysisFailClosed(new_tweet, last_posts, posted, utc, db_error) ==
    IF db_error THEN TRUE
    ELSE LET very_recent_posts ==
                 SelectSeq(posted, LAMBDA r : r.timestamp >= utc - 15 * 60)
             recent_posts == PostsBetween(posted, utc - 30 * 60, utc - 15 * 60)
         IN \/ \E i \in DOMAIN very_recent_posts :
                  Strip(very_recent_posts[i].content) = Strip(new_tweet)
            \/ \E i \in DOMAIN recent_posts :
                  HighlySimilar(new_tweet, recent_posts[i].content)
            \/ \E i \in DOMAIN last_posts :
                  Strip(last_posts[i]) = Strip(new_tweet)

\* lines 141-144 selecting the last 4 minutes only
IsDuplicateAnalysisShortWindow(new_tweet, last_posts, posted, utc, db_error) ==
    IF db_error THEN FALSE
    ELSE LET very_recent_posts ==
                 SelectSeq(posted, LAMBDA r : r.timestamp >= utc - 4 * 60)
             recent_posts == PostsBetween(posted, utc - 30 * 60, utc - 15 * 60)
         IN \/ \E i \in DOMAIN very_recent_posts :
                  Strip(very_recent_posts[i].content) = Strip(new_tweet)
            \/ \E i \in DOMAIN recent_posts :
                  HighlySimilar(new_tweet, recent_posts[i].content)
            \/ \E i \in DOMAIN last_posts :
                  Strip(last_posts[i]) = Strip(new_tweet)

\* _is_duplicate_analysis; db_error: a query on posted_content raises.
\* Rows are stamped with the local clock (datetime.now()) and selected
\* against SQLite's datetime('now', ...), which is UTC: utc is the UTC
\* clock at the time of the call.
IsDuplicateAnalysis(new_tweet, last_posts, posted, utc, db_error) ==
    IF db_error THEN FALSE
    ELSE LET very_recent_posts ==
                 SelectSeq(posted, LAMBDA r : r.timestamp >= utc - 15 * 60)
             recent_posts == PostsBetween(posted, utc - 30 * 60, utc - 15 * 60)
         IN \/ \E i \in DOMAIN very_recent_posts :
                  Strip(very_recent_posts[i].content) = Strip(new_tweet)
            \/ \E i \in DOMAIN recent_posts :
                  HighlySimilar(new_tweet, recent_posts[i].content)
            \/ \E i \in DOMAIN last_posts :
                  Strip(last_posts[i]) = Strip(new_tweet)

\* CryptoDatabase.store_posted_content: one committed row, stamped now
StorePostedContent(posted, content, t) ==
    Append(posted, [timestamp |-> t, content |-> content])

(***************************************************************************)
(* CryptoDatabase as a whole: every table, the transaction the shared      *)
(* connection has open, the errors logged, the store calls made and what   *)
(* the latest get_recent_market_data returned.                             *)
(***************************************************************************)
TableNames ==
    {"market_data", "posted_content", "mood_history",
     "smart_money_indicators", "token_market_comparison",
     "token_correlations"}

\* _initialize_database on a new file
EmptyDatabase ==
    [tables |-> [tb \in TableNames |-> <<>>], pending |-> <<>>,
     errors |-> <<>>, calls |-> <<>>,
     recent |-> [asked |-> FALSE, chain |-> "", at |-> 0, rows |-> <<>>]]

RECURSIVE Commit(_, _)
\* conn.commit(): the rows of the open transaction reach their tables
Commit(tables, pending) ==
    IF pending = <<>> THEN tables
    ELSE LET e == Head(pending)
         IN Commit([tables EXCEPT ![e.table] = Append(@, e.row)],
                   Tail(pending))

\* a store method whose except clause logs and does not roll back
StoreRowNoRollback(d, table, row, outcome) ==
    LET executed == IF outcome = "execute_fails" THEN d.pending
                    ELSE Append(d.pending, [table |-> table, row |-> row])
    IN IF outcome = "ok"
       THEN [d EXCEPT !.tables = Commit(d.tables, executed),
                      !.pending = <<>>]
       ELSE [d EXCEPT !.pending = executed,
                      !.errors = Append(@, table)]

\* the body shared by the store methods: cursor.execute of one INSERT and
\* conn.commit() in a try, log_error and conn.rollback() in its except
\* clause; outcome says which of the two calls, if any, raises
StoreRow(d, table, row, outcome) ==
    LET executed == IF outcome = "execute_fails" THEN d.pending
                    ELSE Append(d.pending, [table |-> table, row |-> row])
    IN IF outcome = "ok"
       THEN [d EXCEPT !.tables = Commit(d.tables, executed),
                      !.pending = <<>>]
       ELSE [d EXCEPT !.pending = <<>>,
                      !.errors = Append(@, table)]

\* the row store_market_data inserts, stamped with the local clock
MarketDataRow(chain, data, t) ==
    [timestamp |-> t, chain |-> chain, price |-> data.current_price,
     volume |-> data.volume]

RECURSIVE NewestFirst(_)
\* ORDER BY timestamp DESC over rows kept in insertion (time) order
NewestFirst(rows) ==
    IF rows = <<>> THEN <<>>
    ELSE Append(NewestFirst(Tail(rows)), Head(rows))

\* get_recent_market_data with both sides of the comparison on the local
\* clock
GetRecentMarketDataLocal(d, chain, hours, t, offset) ==
    NewestFirst(SelectSeq(d.tables["market_data"],
                          LAMBDA r : /\ r.chain = chain
                                     /\ r.timestamp >= t - hours * 3600))

\* get_recent_market_data: the rows of chain whose stamp is at or after
\* SQLite's datetime('now', '-hours hours'), which is UTC, newest first;
\* t is the local clock and offset is local time minus UTC
GetRecentMarketData(d, chain, hours, t, offset) ==
    NewestFirst(SelectSeq(d.tables["market_data"],
                          LAMBDA r : /\ r.chain = chain
                                     /\ r.timestamp >=
                                           (t - offset) - hours * 3600))

(***************************************************************************)
(* State                                                                   *)
(***************************************************************************)
VARIABLES
    pc,                 \* where start() / _run_analysis_cycle stands
    now,                \* the wall clock, datetime.now()
    last_check_time,    \* self.last_check_time
    last_market_data,   \* self.last_market_data, the retained snapshot
    past_predictions,   \* self.past_predictions
    market_data,        \* the snapshot of the running cycle
    available_tokens,   \* the shuffled tokens the for loop has yet to take
    token_to_analyze,   \* the loop variable
    decision,           \* what the last _should_post_update call did
    analysis,           \* the formatted tweet of the candidate
    retry_count,        \* retry counter of the running retry loop
    market_rows,        \* database table market_data
    posted_content,     \* database table posted_content
    tweets,             \* the account's posts, most recent first
    cycles,             \* main loop iterations completed
    faults,             \* failures of collaborators so far
    baseline_before,    \* the retained snapshot the last evaluation read
    previous_market_data, \* the snapshot of the preceding cycle
    evaluated,          \* tokens evaluated in the running cycle, in order
    posted_in_cycle,    \* narratives published in the running cycle
    utc_offset,         \* local time minus UTC on the host, in seconds
    emitted_in_cycle,   \* an evaluation of the running cycle decided to emit
    last_emitting_cycle, \* when the latest cycle that decided to emit ended
    last_cycle_end,     \* when the latest loop iteration ended (0: none yet)
    emit_snapshot,      \* the snapshot of the latest decision to emit
    emit_snapshot_before, \* emit_snapshot as the last evaluation found it
    filter_call,        \* the latest call of the duplicate filter
    callback,           \* what the latest _get_spicy_callback returned
    inserted,           \* timestamps of the records ever tracked, in order
    indicators,         \* what the analyzer calls on the snapshot returned
    start,              \* start(): the running setup attempt, the exit, cleanups
    db                  \* CryptoDatabase in SpecPersistence: tables, transaction, log

vars == <<pc, now, last_check_time, last_market_data, past_predictions,
          market_data, available_tokens, token_to_analyze, decision, analysis,
          retry_count, market_rows, posted_content, tweets, cycles, faults,
          baseline_before, previous_market_data, evaluated, posted_in_cycle,
          utc_offset, emitted_in_cycle, last_emitting_cycle, last_cycle_end,
          emit_snapshot, emit_snapshot_before, filter_call, callback,
          inserted, indicators, start, db>>

\* failures of collaborators (fetch, database, generation, publishing)
\* explored in one run
MaxFaults == 1

Quote(price, volume, change) ==
    [current_price |-> price, volume |-> volume,
     price_change_percentage_24h |-> change]

\* all dicts with keys among Tokens and values in quotes
Dicts(quotes) == UNION {[D -> quotes] : D \in SUBSET Tokens}

\* what the provider may return for a token in the main loop
CycleQuotes == {Quote(100, 100, 0), Quote(105, 100, 0), Quote(0, 100, 0)}

\* texts the narrative generator may return
Analyses == {<<"volume", "up">>}

\* moods determine_advanced_mood may return
Moods == {"bullish"}

\* how long a successful generation call may take
Latencies == {0, BASE_INTERVAL}

\* rows left in market_data by an earlier run of the bot
InitialRows ==
    {<<>>,
     <<[timestamp |-> -600, chain |-> "BTC", volume |-> 70]>>}

\* time zones of the host: UTC, and one hour behind UTC
UtcOffsets == {0, -3600}

\* start() once the setup loop is left by its break (lines 1312-1325)
Running ==
    [driver_ok |-> TRUE, logged_in |-> TRUE, failures |-> 0,
     exit_path |-> "none", interrupted_at |-> "", cleanups |-> 0]

NoDecision ==
    [raised |-> FALSE, should_post |-> FALSE, trigger_reason |-> None,
     evaluated_at |-> 0]

NoCall ==
    [called |-> FALSE, db_error |-> FALSE, last_posts |-> <<>>,
     is_duplicate |-> FALSE]

NoText == [body |-> <<>>, tags |-> "", pad |-> FALSE]

\* orders random.shuffle may leave the tokens of S in
Shuffles(S) ==
    {o \in UNION {[1..n -> S] : n \in {Cardinality(S)}} :
        \A i, j \in DOMAIN o : i # j => o[i] # o[j]}

Init ==
    /\ pc = "loop"
    /\ now = 0
    /\ last_check_time = 0
    /\ last_market_data = EmptyDict
    /\ past_predictions = <<>>
    /\ market_data = EmptyDict
    /\ available_tokens = <<>>
    /\ token_to_analyze = ""
    /\ decision = NoDecision
    /\ analysis = NoText
    /\ retry_count = 0
    /\ market_rows \in InitialRows
    /\ posted_content = <<>>
    /\ tweets = <<>>
    /\ cycles = 0
    /\ faults = 0
    /\ baseline_before = EmptyDict
    /\ previous_market_data = EmptyDict
    /\ evaluated = <<>>
    /\ posted_in_cycle = 0
    /\ utc_offset \in UtcOffsets
    /\ emitted_in_cycle = FALSE
    /\ last_emitting_cycle = 0
    /\ last_cycle_end = 0
    /\ emit_snapshot = EmptyDict
    /\ emit_snapshot_before = EmptyDict
    /\ filter_call = NoCall
    /\ callback = None
    /\ inserted = <<>>
    /\ indicators = EmptyDict
    /\ start = Running
    /\ db = EmptyDatabase

(***************************************************************************)
(* _run_analysis_cycle, step by step                                       *)
(***************************************************************************)
RECURSIVE StoreAll(_, _, _, _)
\* _get_crypto_data lines 411-413: store_market_data for every chain of the
\* snapshot, in reference order; the writes of the chains in failing are
\* rolled back
StoreAll(rows, data, chains, t) ==
    IF chains = <<>> THEN rows
    ELSE StoreAll(StoreMarketData(rows, Head(chains), data[Head(chains)], t),
                  data, Tail(chains), t)

TokensIn(data, failing) ==
    SelectSeq(reference_tokens, LAMBDA tk : Has(data, tk) /\ tk \notin failing)

\* the fetch fails: _run_analysis_cycle logs and returns
FetchFails ==
    /\ pc = "loop" /\ cycles < MaxCycles
    /\ faults < MaxFaults
    /\ faults' = faults + 1
    /\ market_data' = EmptyDict
    /\ available_tokens' = <<>>
    /\ evaluated' = <<>>
    /\ posted_in_cycle' = 0
    /\ pc' = "sleep"
    /\ UNCHANGED <<now, last_check_time, last_market_data, past_predictions,
                   token_to_analyze, decision, analysis, retry_count,
                   market_rows, posted_content, tweets, cycles,
                   baseline_before, previous_market_data,
                   utc_offset, emitted_in_cycle,
                   last_emitting_cycle,
                   last_cycle_end, emit_snapshot, emit_snapshot_before,
                   filter_call, callback, inserted, indicators, start, db>>

\* _get_crypto_data succeeds, then lines 1242-1249
Fetch ==
    /\ pc = "loop" /\ cycles < MaxCycles
    /\ \E data \in Dicts(CycleQuotes) \ {EmptyDict} :
       \E failing \in SUBSET DOMAIN data :
       \E order \in Shuffles(DOMAIN data) :
          /\ faults + Cardinality(failing) <= MaxFaults
          /\ faults' = faults + Cardinality(failing)
          /\ market_data' = data
          /\ market_rows' =
                StoreAll(market_rows, data, TokensIn(data, failing), now)
          /\ available_tokens' = order
    /\ evaluated' = <<>>
    /\ posted_in_cycle' = 0
    /\ pc' = "tokens"
    /\ UNCHANGED <<now, last_check_time, last_market_data, past_predictions,
                   token_to_analyze, decision, analysis, retry_count,
                   posted_content, tweets, cycles, baseline_before,
                   previous_market_data,
                   utc_offset, emitted_in_cycle,
                   last_emitting_cycle,
                   last_cycle_end, emit_snapshot, emit_snapshot_before,
                   filter_call, callback, inserted, indicators, start, db>>

\* lines 1252-1255 and 1297-1298: the next token is evaluated; a raise
\* leaves the loop for the handler of line 1303, which ends the cycle
Evaluate ==
    /\ pc = "tokens" /\ available_tokens # <<>>
    /\ LET token == Head(available_tokens)
           r == ShouldPostUpdate(token, market_data, last_market_data,
                                 market_rows, now, last_check_time)
       IN /\ token_to_analyze' = token
          /\ available_tokens' = Tail(available_tokens)
          /\ evaluated' = Append(evaluated, token)
          /\ baseline_before' = last_market_data
          /\ last_market_data' = r.last_market_data
          /\ decision' = [raised |-> r.raised, should_post |-> r.should_post,
                          trigger_reason |-> r.trigger_reason,
                          evaluated_at |-> now]
          /\ emitted_in_cycle' = (emitted_in_cycle \/ r.should_post)
          /\ emit_snapshot_before' = emit_snapshot
          /\ emit_snapshot' = IF r.should_post THEN market_data
                              ELSE emit_snapshot
          /\ pc' = IF r.raised THEN "sleep"
                   ELSE IF r.should_post THEN "analyze" ELSE "tokens"
    /\ retry_count' = 0
    /\ UNCHANGED <<now, last_check_time, past_predictions, market_data,
                   analysis, market_rows, posted_content, tweets, cycles,
                   faults, previous_market_data, posted_in_cycle,
                   utc_offset, last_emitting_cycle,
                   last_cycle_end,
                   filter_call, callback, inserted, indicators, start, db>>

\* lines 1300-1301: every token was tried
TokensExhausted ==
    /\ pc = "tokens" /\ available_tokens = <<>>
    /\ pc' = "sleep"
    /\ UNCHANGED <<now, last_check_time, last_market_data, past_predictions,
                   market_data, available_tokens, token_to_analyze, decision,
                   analysis, retry_count, market_rows, posted_content, tweets,
                   cycles, faults, baseline_before, previous_market_data,
                   evaluated, posted_in_cycle,
                   utc_offset, emitted_in_cycle,
                   last_emitting_cycle,
                   last_cycle_end, emit_snapshot, emit_snapshot_before,
                   filter_call, callback, inserted, indicators, start, db>>

CurrentPrices == [tk \in DOMAIN market_data |-> market_data[tk].current_price]

\* lines 1222-1228 waiting 10 seconds after every failed attempt
AnalyzeFailsFlatWait ==
    /\ pc = "analyze" /\ retry_count < max_retries
    /\ retry_count > 0 \/ faults < MaxFaults
    /\ faults' = IF retry_count = 0 THEN faults + 1 ELSE faults
    /\ past_predictions' =
          ResolvePending(past_predictions, token_to_analyze, CurrentPrices, now)
    /\ callback' = GetSpicyCallback(past_predictions, token_to_analyze,
                                    CurrentPrices, now)
    /\ retry_count' = retry_count + 1
    /\ now' = now + 10
    /\ pc' = IF retry_count' >= max_retries THEN "tokens" ELSE "analyze"
    /\ UNCHANGED <<last_check_time, last_market_data, market_data,
                   available_tokens, token_to_analyze, decision, analysis,
                   market_rows, posted_content, tweets, cycles,
                   baseline_before, previous_market_data, evaluated,
                   posted_in_cycle,
                   utc_offset, emitted_in_cycle,
                   last_emitting_cycle,
                   last_cycle_end, emit_snapshot, emit_snapshot_before,
                   filter_call, inserted, indicators, start, db>>

\* _analyze_market_sentiment, an attempt that raises after the callback
\* (lines 1033, 1222-1228); the third failure returns None and
\* _run_analysis_cycle takes the next token (lines 1258-1260)
AnalyzeFails ==
    /\ pc = "analyze" /\ retry_count < max_retries
    /\ retry_count > 0 \/ faults < MaxFaults
    /\ faults' = IF retry_count = 0 THEN faults + 1 ELSE faults
    /\ past_predictions' =
          ResolvePending(past_predictions, token_to_analyze, CurrentPrices, now)
    /\ callback' = GetSpicyCallback(past_predictions, token_to_analyze,
                                    CurrentPrices, now)
    /\ retry_count' = retry_count + 1
    /\ now' = now + retry_count' * 10
    /\ pc' = IF retry_count' >= max_retries THEN "tokens" ELSE "analyze"
    /\ UNCHANGED <<last_check_time, last_market_data, market_data,
                   available_tokens, token_to_analyze, decision, analysis,
                   market_rows, posted_content, tweets, cycles,
                   baseline_before, previous_market_data, evaluated,
                   posted_in_cycle,
                   utc_offset, emitted_in_cycle,
                   last_emitting_cycle,
                   last_cycle_end, emit_snapshot, emit_snapshot_before,
                   filter_call, inserted, indicators, start, db>>

\* _analyze_market_sentiment, the attempt that succeeds (lines 1033,
\* 1188-1220): callback, generation, _track_prediction, formatting,
\* store_posted_content (whose failure is logged), return
AnalyzeSucceeds ==
    /\ pc = "analyze" /\ retry_count < max_retries
    /\ \E text \in Analyses, mood \in Moods, latency \in Latencies,
          stored \in BOOLEAN :
          LET t == now + latency
              tweet == FormatTweetAnalysis(token_to_analyze, text)
          IN /\ stored \/ faults < MaxFaults
             /\ faults' = IF stored THEN faults ELSE faults + 1
             /\ now' = t
             /\ past_predictions' =
                   TrackPrediction(
                       ResolvePending(past_predictions, token_to_analyze,
                                      CurrentPrices, now),
                       token_to_analyze, text, mood,
                       market_data[token_to_analyze].current_price, t)
             /\ callback' = GetSpicyCallback(past_predictions,
                                             token_to_analyze, CurrentPrices,
                                             now)
             /\ inserted' = Append(inserted, t)
             /\ analysis' = tweet
             /\ posted_content' =
                   IF stored THEN StorePostedContent(posted_content, tweet, t)
                   ELSE posted_content
    /\ pc' = "filter"
    /\ UNCHANGED <<last_check_time, last_market_data, market_data,
                   available_tokens, token_to_analyze, decision, retry_count,
                   market_rows, tweets, cycles, baseline_before,
                   previous_market_data, evaluated, posted_in_cycle,
                   utc_offset, emitted_in_cycle,
                   last_emitting_cycle,
                   last_cycle_end, emit_snapshot, emit_snapshot_before,
                   filter_call, indicators, start, db>>

\* lines 1262-1263 and 1294-1296: _get_last_posts (the last 10 posts, or
\* [] when the page fails), then the duplicate filter
Filter ==
    /\ pc = "filter"
    /\ \E posts_ok \in BOOLEAN, db_error \in BOOLEAN :
          LET failures == (IF posts_ok THEN 0 ELSE 1)
                            + (IF db_error THEN 1 ELSE 0)
              last_posts == IF posts_ok
                            THEN SubSeq(tweets, 1, IF Len(tweets) < 10
                                                   THEN Len(tweets) ELSE 10)
                            ELSE <<>>
          IN /\ faults + failures <= MaxFaults
             /\ faults' = faults + failures
             /\ LET is_duplicate ==
                        IsDuplicateAnalysis(analysis, last_posts,
                                            posted_content, now - utc_offset,
                                            db_error)
                IN /\ filter_call' = [called |-> TRUE, db_error |-> db_error,
                                      last_posts |-> last_posts,
                                      is_duplicate |-> is_duplicate]
                   /\ pc' = IF is_duplicate THEN "tokens" ELSE "post"
    /\ retry_count' = 0
    /\ UNCHANGED <<now, last_check_time, last_market_data, past_predictions,
                   market_data, available_tokens, token_to_analyze, decision,
                   analysis, market_rows, posted_content, tweets, cycles,
                   baseline_before, previous_market_data, evaluated,
                   posted_in_cycle,
                   utc_offset, emitted_in_cycle,
                   last_emitting_cycle,
                   last_cycle_end, emit_snapshot, emit_snapshot_before,
                   callback, inserted, indicators, start, db>>

\* _post_analysis failing, with line 1293 returning instead of continuing
PostFailsEndsCycle ==
    /\ pc = "post" /\ retry_count < max_retries
    /\ retry_count > 0 \/ faults < MaxFaults
    /\ faults' = IF retry_count = 0 THEN faults + 1 ELSE faults
    /\ retry_count' = retry_count + 1
    /\ \E wait \in {2, retry_count' * 10} : now' = now + wait
    /\ pc' = IF retry_count' >= max_retries THEN "sleep" ELSE "post"
    /\ UNCHANGED <<last_check_time, last_market_data, past_predictions,
                   market_data, available_tokens, token_to_analyze, decision,
                   analysis, market_rows, posted_content, tweets, cycles,
                   baseline_before, previous_market_data, evaluated,
                   posted_in_cycle,
                   utc_offset, emitted_in_cycle,
                   last_emitting_cycle,
                   last_cycle_end, emit_snapshot, emit_snapshot_before,
                   filter_call, callback, inserted, indicators, start, db>>

\* _post_analysis, a failed attempt: no post button (sleep 2) or an
\* exception (sleep attempt * 10); the third failure returns False and
\* _run_analysis_cycle takes the next token (lines 1291-1293)
PostFails ==
    /\ pc = "post" /\ retry_count < max_retries
    /\ retry_count > 0 \/ faults < MaxFaults
    /\ faults' = IF retry_count = 0 THEN faults + 1 ELSE faults
    /\ retry_count' = retry_count + 1
    /\ \E wait \in {2, retry_count' * 10} : now' = now + wait
    /\ pc' = IF retry_count' >= max_retries THEN "tokens" ELSE "post"
    /\ UNCHANGED <<last_check_time, last_market_data, past_predictions,
                   market_data, available_tokens, token_to_analyze, decision,
                   analysis, market_rows, posted_content, tweets, cycles,
                   baseline_before, previous_market_data, evaluated,
                   posted_in_cycle,
                   utc_offset, emitted_in_cycle,
                   last_emitting_cycle,
                   last_cycle_end, emit_snapshot, emit_snapshot_before,
                   filter_call, callback, inserted, indicators, start, db>>

\* _post_analysis succeeding, with line 1290 continuing instead of
\* returning
PostSucceedsContinues ==
    /\ pc = "post" /\ retry_count < max_retries
    /\ tweets' = <<analysis>> \o tweets
    /\ posted_in_cycle' = posted_in_cycle + 1
    /\ pc' = "tokens"
    /\ UNCHANGED <<now, last_check_time, last_market_data, past_predictions,
                   market_data, available_tokens, token_to_analyze, decision,
                   analysis, retry_count, market_rows, posted_content, cycles,
                   faults, baseline_before, previous_market_data, evaluated,
                   utc_offset, emitted_in_cycle,
                   last_emitting_cycle,
                   last_cycle_end, emit_snapshot, emit_snapshot_before,
                   filter_call, callback, inserted, indicators, start, db>>

\* _post_analysis succeeds; lines 1265-1290: the metrics are stored and the
\* cycle returns
PostSucceeds ==
    /\ pc = "post" /\ retry_count < max_retries
    /\ tweets' = <<analysis>> \o tweets
    /\ posted_in_cycle' = posted_in_cycle + 1
    /\ pc' = "sleep"
    /\ UNCHANGED <<now, last_check_time, last_market_data, past_predictions,
                   market_data, available_tokens, token_to_analyze, decision,
                   analysis, retry_count, market_rows, posted_content, cycles,
                   faults, baseline_before, previous_market_data, evaluated,
                   utc_offset, emitted_in_cycle,
                   last_emitting_cycle,
                   last_cycle_end, emit_snapshot, emit_snapshot_before,
                   filter_call, callback, inserted, indicators, start, db>>

\* start(), lines 1336-1343: the cycle has returned and its locals are
\* gone; sleep up to the base interval, then stamp last_check_time
Sleep ==
    /\ pc = "sleep"
    /\ LET time_since_last == now - last_check_time
           sleep_time == Max(0, BASE_INTERVAL - time_since_last)
       IN /\ now' = now + sleep_time
          /\ last_check_time' = now'
          /\ last_emitting_cycle' =
                IF emitted_in_cycle THEN now' ELSE last_emitting_cycle
    /\ cycles' = cycles + 1
    /\ previous_market_data' = market_data
    /\ market_data' = EmptyDict
    /\ available_tokens' = <<>>
    /\ token_to_analyze' = ""
    /\ decision' = NoDecision
    /\ analysis' = NoText
    /\ retry_count' = 0
    /\ baseline_before' = EmptyDict
    /\ evaluated' = <<>>
    /\ posted_in_cycle' = 0
    /\ emitted_in_cycle' = FALSE
    /\ last_cycle_end' = now'
    /\ emit_snapshot_before' = EmptyDict
    /\ filter_call' = NoCall
    /\ callback' = None
    /\ pc' = "loop"
    /\ UNCHANGED <<last_market_data, past_predictions, market_rows,
                   posted_content, tweets, faults, utc_offset,
                   emit_snapshot,
                   inserted, indicators, start, db>>

Next ==
    \/ FetchFails
    \/ Fetch
    \/ Evaluate
    \/ TokensExhausted
    \/ AnalyzeFails
    \/ AnalyzeSucceeds
    \/ Filter
    \/ PostFails
    \/ PostSucceeds
    \/ Sleep

Spec == Init /\ [][Next]_vars

(***************************************************************************)
(* _should_post_update on its own: one call, from any retained snapshot,   *)
(* current snapshot, volume history and elapsed time of the sets below.    *)
(***************************************************************************)
\* quotes on both sides of every threshold: +5% price, +10% volume, a 24h
\* change 12 or 5 above a flat peer, +4% / +9%, and zero price or volume
TriggerQuotes ==
    {Quote(100, 100, 0), Quote(105, 100, 0), Quote(100, 110, 0),
     Quote(105, 110, 12), Quote(104, 109, 5), Quote(0, 100, 0),
     Quote(100, 0, 1)}

Row(t, chain, volume) == [timestamp |-> t, chain |-> chain, volume |-> volume]

\* market_data rows of one chain, the call being made at time 0: nothing,
\* one row, a lower earlier hour, older rows of the day, a zero row,
\* a flat hour, a nearly flat hour
TriggerHistories(chain) ==
    {<<>>,
     <<Row(-60, chain, 100)>>,
     <<Row(-600, chain, 70), Row(-60, chain, 100)>>,
     <<Row(-9000, chain, 40), Row(-7200, chain, 50), Row(-60, chain, 100)>>,
     <<Row(-60, chain, 0)>>,
     <<Row(-900, chain, 100), Row(-600, chain, 100), Row(-60, chain, 100)>>,
     <<Row(-900, chain, 99), Row(-600, chain, 101), Row(-300, chain, 100),
       Row(-60, chain, 100)>>}

InitTrigger ==
    /\ pc = "tokens"
    /\ now = 0
    /\ last_check_time \in {-BASE_INTERVAL, 1 - BASE_INTERVAL}
    /\ last_market_data \in Dicts(TriggerQuotes)
    /\ past_predictions = <<>>
    /\ market_data \in Dicts(TriggerQuotes) \ {EmptyDict}
    /\ available_tokens \in {<<tk>> : tk \in DOMAIN market_data}
    /\ token_to_analyze = ""
    /\ decision = NoDecision
    /\ analysis = NoText
    /\ retry_count = 0
    /\ market_rows \in TriggerHistories(available_tokens[1])
    /\ posted_content = <<>>
    /\ tweets = <<>>
    /\ cycles = 0
    /\ faults = 0
    /\ baseline_before = EmptyDict
    /\ previous_market_data = EmptyDict
    /\ evaluated = <<>>
    /\ posted_in_cycle = 0
    /\ utc_offset = 0
    /\ emitted_in_cycle = FALSE
    /\ last_emitting_cycle = last_check_time
    /\ last_cycle_end = last_check_time
    /\ emit_snapshot = last_market_data
    /\ emit_snapshot_before = EmptyDict
    /\ filter_call = NoCall
    /\ callback = None
    /\ inserted = <<>>
    /\ indicators = EmptyDict
    /\ start = Running
    /\ db = EmptyDatabase

SpecTrigger == InitTrigger /\ [][Evaluate]_vars

(***************************************************************************)
(* The trigger conditions of the decision, read off the state left by the  *)
(* latest evaluation: the asset, the snapshot, the baseline it was         *)
(* compared with, the stored volume rows and the two instants.             *)
(***************************************************************************)
HasEvaluated == token_to_analyze # ""

\* the evaluation returned a decision (it did not raise)
Returned == HasEvaluated /\ ~decision.raised

InBaseline ==
    HasEvaluated /\ Has(market_data, token_to_analyze)
                 /\ Has(baseline_before, token_to_analyze)

\* both deltas are defined: the baseline entry has a price and a volume
DeltasDefined ==
    /\ InBaseline
    /\ baseline_before[token_to_analyze].current_price # 0
    /\ baseline_before[token_to_analyze].volume # 0

\* 1: the absolute price delta against the baseline is at least 5 percent
CondPrice ==
    /\ DeltasDefined
    /\ LET new == market_data[token_to_analyze].current_price
           old == baseline_before[token_to_analyze].current_price
       IN 100 * Abs(new - old) >= PRICE_CHANGE_THRESHOLD * old

\* 2: the absolute volume delta against the baseline is at least 10 percent
CondVolume ==
    /\ DeltasDefined
    /\ LET new == market_data[token_to_analyze].volume
           old == baseline_before[token_to_analyze].volume
       IN 100 * Abs(new - old) >= VOLUME_CHANGE_THRESHOLD * old

TrendSeen ==
    AnalyzeVolumeTrend(market_data[token_to_analyze].volume,
        GetHistoricalVolumeData(market_rows, token_to_analyze,
                                VOLUME_WINDOW_MINUTES,
                                decision.evaluated_at)).trend

\* 3: the rolling window classification is a significant one
CondTrend ==
    /\ HasEvaluated /\ Has(market_data, token_to_analyze)
    /\ TrendSeen \in {"significant_increase", "significant_decrease"}

\* 4: abnormal volume or stealth accumulation
CondSmart ==
    /\ HasEvaluated /\ Has(market_data, token_to_analyze)
    /\ LET signal == AnalyzeSmartMoneyIndicators(
                         market_data[token_to_analyze],
                         GetHistoricalVolumeData(market_rows,
                             token_to_analyze, 60, decision.evaluated_at),
                         GetHistoricalVolumeData(market_rows,
                             token_to_analyze, DAILY_WINDOW_MINUTES,
                             decision.evaluated_at))
       IN signal.abnormal_volume \/ signal.stealth_accumulation

\* 5: outperforming the market with an absolute difference above 5.0
CondOutperforming ==
    /\ HasEvaluated /\ Has(market_data, token_to_analyze)
    /\ LET vs == AnalyzeTokenVsMarket(token_to_analyze, market_data)
       IN vs.outperforming_market /\ Abs(vs.num) > 5 * vs.den

\* 6: at least the base interval since the recorded instant
CondInterval == decision.evaluated_at - last_check_time >= BASE_INTERVAL

\* the first satisfied condition in the documented order
FirstOfAll ==
    IF CondPrice THEN <<"price_change", token_to_analyze>>
    ELSE IF CondVolume THEN <<"volume_change", token_to_analyze>>
    ELSE IF CondTrend THEN <<"volume_trend", token_to_analyze, TrendSeen>>
    ELSE IF CondSmart THEN <<"smart_money", token_to_analyze>>
    ELSE IF CondOutperforming
         THEN <<"outperforming_market", token_to_analyze>>
    ELSE IF CondInterval THEN <<"regular_interval">>
    ELSE None

\* the same, conditions 1 to 5 counting only for an asset of the baseline
FirstForBaselineAsset ==
    IF InBaseline THEN FirstOfAll
    ELSE IF CondInterval THEN <<"regular_interval">> ELSE None

\* C1 as stated: with a non-empty baseline the decision carries exactly one
\* reason when it emits and none when it does not, and the reason is the
\* first satisfied condition in the order price_change, volume_change,
\* volume_trend, smart_money, outperforming_market, regular_interval.
C1_FirstSatisfiedReason ==
    (Returned /\ baseline_before # EmptyDict) =>
        /\ decision.should_post = (decision.trigger_reason # None)
        /\ decision.trigger_reason = FirstOfAll

\* C1 amended: the first-satisfied rule holds for every evaluation that
\* returns a decision, conditions 1 to 5 being considered only for an asset
\* that is present in the baseline; for an asset absent from the baseline
\* only regular_interval can be the reason.
C1_FirstSatisfiedForBaselineAsset ==
    (Returned /\ baseline_before # EmptyDict) =>
        /\ decision.should_post = (decision.trigger_reason # None)
        /\ decision.trigger_reason = FirstForBaselineAsset

\* price and volume deltas both reach their thresholds: price_change
C1_Witness ==
    /\ Returned /\ baseline_before # EmptyDict
    /\ CondPrice /\ CondVolume
    /\ decision.should_post
    /\ decision.trigger_reason = <<"price_change", token_to_analyze>>

\* C2: when no previous snapshot is retained the decision is to emit with
\* the reason initial_post, whatever the asset and the snapshot, and the
\* current snapshot becomes the baseline.
C2_InitialPost ==
    (HasEvaluated /\ baseline_before = EmptyDict) =>
        /\ ~decision.raised
        /\ decision.should_post
        /\ decision.trigger_reason = <<"initial_post">>
        /\ last_market_data = market_data

\* a first evaluation of an asset quoted at price zero
C2_Witness ==
    /\ HasEvaluated /\ baseline_before = EmptyDict
    /\ market_data[token_to_analyze].current_price = 0
    /\ decision.trigger_reason = <<"initial_post">>
    /\ last_market_data = market_data

\* C3: with a baseline, a price delta below 5 percent, a volume delta below
\* 10 percent, no significant trend, no smart money signal, no
\* outperformance above 5.0 and less than the base interval elapsed, the
\* decision is not to emit and carries no reason.
C3_QuietNoEmit ==
    (/\ HasEvaluated /\ baseline_before # EmptyDict
     /\ DeltasDefined
     /\ ~CondPrice /\ ~CondVolume /\ ~CondTrend /\ ~CondSmart
     /\ ~CondOutperforming /\ ~CondInterval) =>
        /\ ~decision.raised
        /\ ~decision.should_post
        /\ decision.trigger_reason = None

\* a quiet evaluation one second short of the interval, deltas below the
\* thresholds but not zero
C3_Witness ==
    /\ HasEvaluated /\ DeltasDefined
    /\ ~CondPrice /\ ~CondVolume /\ ~CondTrend /\ ~CondSmart
    /\ ~CondOutperforming /\ ~CondInterval
    /\ market_data[token_to_analyze].current_price
           # baseline_before[token_to_analyze].current_price
    /\ decision.evaluated_at - last_check_time = BASE_INTERVAL - 1
    /\ ~decision.should_post

\* the step is an evaluation: _should_post_update is called for the next
\* asset
IsEvaluation == pc = "tokens" /\ available_tokens # <<>>

C4_Step ==
    /\ (last_market_data' # last_market_data) =>
          (IsEvaluation /\ decision'.should_post)
    /\ (IsEvaluation /\ decision'.should_post) =>
          last_market_data' = market_data
    /\ (IsEvaluation /\ ~decision'.should_post) =>
          last_market_data' = last_market_data

\* C4: the retained snapshot changes only in an evaluation that decides to
\* emit, where it becomes the entire current snapshot, every asset's entry
\* included; an evaluation that decides not to emit leaves it unchanged.
C4_BaselineReplacedOnEmitOnly == [][C4_Step]_vars

\* an emitting evaluation replaced a non-empty baseline by a different
\* snapshot of both assets
C4_Witness ==
    /\ HasEvaluated /\ decision.should_post
    /\ baseline_before # EmptyDict /\ baseline_before # market_data
    /\ DOMAIN market_data = Tokens
    /\ last_market_data = market_data

\* C5 as stated, read for the evaluations that have a preceding cycle with a
\* snapshot: the baseline used is the full snapshot of the immediately
\* preceding polling cycle.
C5_BaselineIsPrecedingCycle ==
    (Returned /\ baseline_before # EmptyDict
              /\ previous_market_data # EmptyDict) =>
        baseline_before = previous_market_data

\* C5 amended: at every evaluation after the first the baseline is the full
\* snapshot that was current at the most recent evaluation that decided to
\* emit; the retained snapshot is replaced wholesale at each such decision
\* and at no other moment, so it may be the current cycle's own snapshot.
C5_BaselineIsLatestEmitSnapshot ==
    /\ last_market_data = emit_snapshot
    /\ (HasEvaluated /\ baseline_before # EmptyDict) =>
          baseline_before = emit_snapshot_before

\* in a second cycle an asset is compared with the cycle's own snapshot,
\* which differs from the preceding cycle's
C5_Witness ==
    /\ HasEvaluated /\ previous_market_data # EmptyDict
    /\ baseline_before = market_data
    /\ baseline_before # previous_market_data
    /\ baseline_before = emit_snapshot_before

NoneOfOneToFive ==
    ~CondPrice /\ ~CondVolume /\ ~CondTrend /\ ~CondSmart
    /\ ~CondOutperforming

IsRegularInterval ==
    decision.should_post /\ decision.trigger_reason = <<"regular_interval">>

NoRepeats(s) == \A i, j \in DOMAIN s : s[i] = s[j] => i = j

\* C8: in one cycle each available asset is evaluated at most once, at most
\* one narrative is published and nothing is evaluated after a publish; a
\* cycle whose candidates all failed to trigger or were filtered ends
\* without a publication.
C8_OnePublicationPerCycle ==
    /\ NoRepeats(evaluated)
    /\ \A i \in DOMAIN evaluated : Has(market_data, evaluated[i])
    /\ posted_in_cycle <= 1
    /\ posted_in_cycle = 1 => pc = "sleep"
    /\ (pc = "sleep" /\ posted_in_cycle = 1) =>
          (evaluated # <<>>
           /\ token_to_analyze = evaluated[Len(evaluated)]
           /\ analysis = tweets[1])

\* a publish ended the cycle while an asset was still waiting
C8_Witness ==
    /\ pc = "sleep" /\ posted_in_cycle = 1
    /\ Len(evaluated) = 1 /\ available_tokens # <<>>

\* the step abandons a triggered candidate: generation or publishing gives
\* up after its retries, or the filter rejects the narrative
IsAbandon ==
    \/ pc \in {"analyze", "post"} /\ retry_count' >= max_retries
    \/ pc = "filter" /\ pc' # "post"

C9_Step ==
    /\ IsAbandon =>
          /\ pc' = "tokens"
          /\ available_tokens' = available_tokens
          /\ posted_in_cycle' = posted_in_cycle
    /\ (IsEvaluation /\ vars' # vars) =>
          /\ token_to_analyze' = Head(available_tokens)
          /\ evaluated' = Append(evaluated, Head(available_tokens))

\* C9: when generation fails after its retries, publishing fails after its
\* retries or the candidate is rejected as a duplicate, the cycle does not
\* end: it returns to the token loop with the remaining assets, whose next
\* step evaluates the next one.
C9_AbandonedCandidateContinues == [][C9_Step]_vars

\* publishing gave up after three attempts and another asset was evaluated
\* next in the same cycle
C9_Witness ==
    /\ Len(evaluated) = 2
    /\ retry_count = 0 /\ analysis # NoText
    /\ analysis.tags = evaluated[1]
    /\ token_to_analyze = evaluated[2]
    /\ posted_in_cycle = 0 /\ tweets = <<>>
    /\ faults = MaxFaults /\ utc_offset # 0

\* C10: an asset with a zero price or a zero volume in the baseline is
\* skipped and the remaining assets of the same cycle are still evaluated,
\* so a cycle never ends after such an evaluation with assets left over.
C10_DegenerateAssetSkipped ==
    (pc = "sleep" /\ HasEvaluated /\ InBaseline /\ ~DeltasDefined) =>
        available_tokens = <<>>

(***************************************************************************)
(* One call of the duplicate filter, _get_last_posts included, over texts  *)
(* that differ in words, capitals, hashtags and surrounding whitespace,    *)
(* a persisted post of any age and hosts on, behind and ahead of UTC.      *)
(***************************************************************************)
Words20 ==
    <<"a", "b", "c", "d", "e", "f", "g", "h", "i", "j",
      "k", "l", "m", "n", "o", "p", "q", "r", "s", "t">>

\* bodies of 20 words sharing 20, 20 (two capitals), 18, 17 and 10 words
\* with Words20
Bodies ==
    {Words20,
     <<"A", "B">> \o SubSeq(Words20, 3, 20),
     SubSeq(Words20, 1, 18) \o <<"u", "v">>,
     SubSeq(Words20, 1, 17) \o <<"u", "v", "w">>,
     SubSeq(Words20, 1, 10)
        \o <<"u", "v", "w", "x", "y", "z", "aa", "bb", "cc", "dd">>}

Candidates ==
    {[body |-> b, tags |-> tg, pad |-> pd] :
        b \in Bodies, tg \in Tokens, pd \in BOOLEAN}

PostedTexts ==
    {[body |-> Words20, tags |-> "BTC", pad |-> pd] : pd \in BOOLEAN}

\* ages of the persisted post in seconds, on the host's clock
PostAges == {300, 900, 901, 1200, 1800, 1801, 2700}

\* posted_content: nothing, or one row
PersistedPosts ==
    {<<>>} \cup {<<[timestamp |-> 0 - age, content |-> c]>> :
                    age \in PostAges, c \in PostedTexts}

\* the host's offset from UTC: none, one hour behind, one hour ahead
DuplicateOffsets == {0, -3600, 3600}

InitDuplicate ==
    /\ pc = "filter"
    /\ now = 0
    /\ analysis \in Candidates
    /\ posted_content \in PersistedPosts
    \* the page shows nothing, the persisted post, or a post the store lost
    /\ tweets \in {<<>>} \cup {<<c>> : c \in PostedTexts}
    /\ posted_content # <<>> /\ tweets # <<>> =>
          tweets[1] = posted_content[1].content
    /\ utc_offset \in DuplicateOffsets
    /\ token_to_analyze = analysis.tags
    /\ last_check_time = 0
    /\ last_market_data = EmptyDict
    /\ past_predictions = <<>>
    /\ market_data = EmptyDict
    /\ available_tokens = <<>>
    /\ decision = NoDecision
    /\ retry_count = 0
    /\ market_rows = <<>>
    /\ cycles = 0
    /\ faults = 0
    /\ baseline_before = EmptyDict
    /\ previous_market_data = EmptyDict
    /\ evaluated = <<>>
    /\ posted_in_cycle = 0
    /\ emitted_in_cycle = FALSE
    /\ last_emitting_cycle = 0
    /\ last_cycle_end = 0
    /\ emit_snapshot = EmptyDict
    /\ emit_snapshot_before = EmptyDict
    /\ filter_call = NoCall
    /\ callback = None
    /\ inserted = <<>>
    /\ indicators = EmptyDict
    /\ start = Running
    /\ db = EmptyDatabase

SpecDuplicate == InitDuplicate /\ [][Filter]_vars

(***************************************************************************)
(* The duplicate filter's claims, read off the state its call leaves: the  *)
(* candidate (analysis), the persisted rows, the list taken from the page  *)
(* and the result.                                                         *)
(***************************************************************************)
\* the call ran its queries without an error
FilterAnswered == filter_call.called /\ ~filter_call.db_error

\* age of a persisted row on the host's clock, which stamped it
RealAge(r) == now - r.timestamp

\* age of a persisted row as the queries see it, against the UTC clock
SeenAge(r) == (now - utc_offset) - r.timestamp

LowerBody(text) == [i \in DOMAIN text.body |-> Lower(text.body[i])]

\* equal once the hashtag block is removed and letter case ignored
SameIgnoringTagsAndCase(a, b) == LowerBody(a) = LowerBody(b)

\* equal once the surrounding whitespace is trimmed
SameStripped(a, b) ==
    a.body = b.body /\ a.tags = b.tags

InFallback ==
    \E i \in DOMAIN filter_call.last_posts :
        SameStripped(filter_call.last_posts[i], analysis)

\* similarity as documented: |intersection| / max(|wordsA|, |wordsB|) over
\* the lowercased words of the bodies, in hundredths of the larger set
Overlap100(a, b) ==
    LET wa == {LowerBody(a)[i] : i \in DOMAIN a.body}
        wb == {LowerBody(b)[i] : i \in DOMAIN b.body}
    IN 100 * Cardinality(wa \cap wb)

Larger(a, b) ==
    LET wa == {LowerBody(a)[i] : i \in DOMAIN a.body}
        wb == {LowerBody(b)[i] : i \in DOMAIN b.body}
    IN IF Cardinality(wa) >= Cardinality(wb) THEN Cardinality(wa)
       ELSE Cardinality(wb)

\* C11 as stated: a candidate is rejected when a persisted post of the last
\* 15 minutes has the same content once the hashtag block is removed and
\* letter case ignored.
C11_RejectsIgnoringTagsAndCase ==
    (/\ FilterAnswered
     /\ \E i \in DOMAIN posted_content :
           /\ RealAge(posted_content[i]) <= 15 * 60
           /\ SameIgnoringTagsAndCase(posted_content[i].content, analysis))
    => filter_call.is_duplicate

\* C11 amended: a candidate is rejected when a persisted post whose stored
\* timestamp is at most 15 minutes behind the database's UTC clock equals
\* it once surrounding whitespace is trimmed, hashtags and letter case
\* included; against such posts alone, a candidate that differs in its
\* hashtag block or in capitalisation is not rejected.
C11_RejectsExactMatchOnly ==
    /\ (/\ FilterAnswered
        /\ \E i \in DOMAIN posted_content :
              /\ SeenAge(posted_content[i]) <= 15 * 60
              /\ SameStripped(posted_content[i].content, analysis))
       => filter_call.is_duplicate
    /\ (/\ FilterAnswered /\ ~InFallback
        /\ \A i \in DOMAIN posted_content :
              /\ SeenAge(posted_content[i]) <= 15 * 60
              /\ ~SameStripped(posted_content[i].content, analysis))
       => ~filter_call.is_duplicate

\* a padded candidate is rejected against its unpadded copy persisted five
\* minutes earlier, the page showing nothing
C11_Witness ==
    /\ FilterAnswered /\ filter_call.last_posts = <<>>
    /\ posted_content # <<>>
    /\ SeenAge(posted_content[1]) = 300
    /\ analysis.pad /\ ~posted_content[1].content.pad
    /\ SameStripped(posted_content[1].content, analysis)
    /\ filter_call.is_duplicate

\* C12 as stated: against a persisted post aged between 15 and 30 minutes,
\* a candidate with 85% word overlap is a duplicate and one with 50%
\* overlap and no exact match in the fallback list is not.
C12_Overlap85Rejected ==
    (/\ FilterAnswered /\ Len(posted_content) = 1
     /\ RealAge(posted_content[1]) > 15 * 60
     /\ RealAge(posted_content[1]) < 30 * 60)
    => LET post == posted_content[1].content
       IN /\ Overlap100(analysis, post) = 85 * Larger(analysis, post)
                => filter_call.is_duplicate
          /\ (Overlap100(analysis, post) = 50 * Larger(analysis, post)
              /\ ~InFallback) => ~filter_call.is_duplicate

\* C12 amended: against a persisted post whose stored timestamp is more
\* than 15 and at most 30 minutes behind the database's UTC clock, a
\* candidate whose similarity is above 85% is a duplicate; one whose
\* similarity is 85% or less (50% included) and that has no exact match in
\* the fallback list is not.
C12_OverlapAbove85Rejected ==
    (/\ FilterAnswered /\ Len(posted_content) = 1
     /\ SeenAge(posted_content[1]) > 15 * 60
     /\ SeenAge(posted_content[1]) <= 30 * 60)
    => LET post == posted_content[1].content
       IN /\ Overlap100(analysis, post) > 85 * Larger(analysis, post)
                => filter_call.is_duplicate
          /\ (Overlap100(analysis, post) <= 85 * Larger(analysis, post)
              /\ ~InFallback) => ~filter_call.is_duplicate

\* 18 of 20 words shared with a post seen as 20 minutes old, other
\* hashtags: rejected
C12_Witness ==
    /\ FilterAnswered /\ Len(posted_content) = 1
    /\ SeenAge(posted_content[1]) = 1200
    /\ Overlap100(analysis, posted_content[1].content) = 90 * 20
    /\ analysis.tags # posted_content[1].content.tags
    /\ filter_call.is_duplicate

\* C13 as stated: a post made more than 30 minutes ago never causes a
\* rejection, whether it is only persisted or also shown on the page.
C13_OldPostNeverRejects ==
    (/\ FilterAnswered
     /\ \A i \in DOMAIN posted_content :
           RealAge(posted_content[i]) > 30 * 60
     /\ \A j \in DOMAIN tweets :
           \E i \in DOMAIN posted_content : tweets[j] = posted_content[i].content)
    => ~filter_call.is_duplicate

\* C13 amended: a persisted post whose stored timestamp is more than 30
\* minutes behind the database's UTC clock never causes a rejection by
\* itself; a candidate is then rejected only if it equals, once trimmed, an
\* entry of the fallback list, whatever the age of that entry.
C13_OldRowNeverRejects ==
    (/\ FilterAnswered
     /\ \A i \in DOMAIN posted_content :
           SeenAge(posted_content[i]) > 30 * 60)
    => (filter_call.is_duplicate <=> InFallback)

\* a candidate identical to a post persisted 45 minutes earlier on a UTC
\* host passes when the page shows nothing
C13_Witness ==
    /\ FilterAnswered /\ filter_call.last_posts = <<>>
    /\ utc_offset = 0
    /\ posted_content # <<>>
    /\ RealAge(posted_content[1]) = 2700
    /\ posted_content[1].content = analysis
    /\ ~filter_call.is_duplicate

\* C14: a candidate that equals, once trimmed, an entry of the fallback
\* list is rejected whatever the state of the persisted store.
C14_FallbackAlwaysRejects ==
    (filter_call.called /\ InFallback) => filter_call.is_duplicate

MaxInserts == 25

\* the clock stops advancing here
MaxClock == 93600

\* time that may pass between two record operations: a minute, half a day,
\* a minute less than a day, a day
Waits == {60, 43200, 86340, 86400}

Last(s) == s[Len(s)]

InitRetention ==
    /\ pc = "analyze"
    /\ now = 0
    /\ last_check_time = 0
    /\ last_market_data = EmptyDict
    /\ past_predictions = <<>>
    /\ market_data = ("BTC" :> Quote(100, 100, 0))
    /\ available_tokens = <<>>
    /\ token_to_analyze = "BTC"
    /\ decision = NoDecision
    /\ analysis = NoText
    /\ retry_count = 0
    /\ market_rows = <<>>
    /\ posted_content = <<>>
    /\ tweets = <<>>
    /\ cycles = 0
    /\ faults = 0
    /\ baseline_before = EmptyDict
    /\ previous_market_data = EmptyDict
    /\ evaluated = <<>>
    /\ posted_in_cycle = 0
    /\ utc_offset = 0
    /\ emitted_in_cycle = FALSE
    /\ last_emitting_cycle = 0
    /\ last_cycle_end = 0
    /\ emit_snapshot = EmptyDict
    /\ emit_snapshot_before = EmptyDict
    /\ filter_call = NoCall
    /\ callback = None
    /\ inserted = <<>>
    /\ indicators = EmptyDict
    /\ start = Running
    /\ db = EmptyDatabase

\* _track_prediction called at line 1203 for the token under analysis; the
\* clock has moved since the previous call
Track ==
    /\ Len(inserted) < MaxInserts
    /\ inserted # <<>> => now > Last(inserted)
    /\ \E text \in Analyses, mood \in Moods :
          past_predictions' =
              TrackPrediction(past_predictions, token_to_analyze, text, mood,
                              CurrentPrices[token_to_analyze], now)
    /\ inserted' = Append(inserted, now)
    /\ UNCHANGED <<pc, now, last_check_time, last_market_data, market_data,
                   available_tokens, token_to_analyze, decision, analysis,
                   retry_count, market_rows, posted_content, tweets, cycles,
                   faults, baseline_before, previous_market_data, evaluated,
                   posted_in_cycle, utc_offset, emitted_in_cycle,
                   last_emitting_cycle, last_cycle_end, emit_snapshot,
                   emit_snapshot_before, filter_call, callback,
                   indicators, start, db>>

\* time passes between two record operations; the buffer is left alone
ClockAdvances ==
    /\ inserted # <<>> /\ now = Last(inserted)
    /\ \E dt \in Waits :
          /\ now + dt <= MaxClock
          /\ now' = now + dt
    /\ UNCHANGED <<pc, last_check_time, last_market_data, past_predictions,
                   market_data, available_tokens, token_to_analyze, decision,
                   analysis, retry_count, market_rows, posted_content, tweets,
                   cycles, faults, baseline_before, previous_market_data,
                   evaluated, posted_in_cycle, utc_offset, emitted_in_cycle,
                   last_emitting_cycle, last_cycle_end, emit_snapshot,
                   emit_snapshot_before, filter_call, callback, inserted,
                   indicators, start, db>>

NextRetention == Track \/ ClockAdvances

SpecRetention == InitRetention /\ [][NextRetention]_vars

\* timestamps of the records held, in buffer order
Held == [i \in DOMAIN past_predictions |-> past_predictions[i].timestamp]

\* C16: the buffer never holds more than 20 records, and once the last 25
\* insertions fall within 24 hours it holds exactly the 20 inserted last,
\* in insertion order.
C16_HoldsLastTwenty ==
    /\ Len(past_predictions) <= 20
    /\ (/\ Len(inserted) >= 25
        /\ Last(inserted) - inserted[Len(inserted) - 24] < 24 * 3600)
       => Held = SubSeq(inserted, Len(inserted) - 19, Len(inserted))

\* 25 insertions within a day, half a day lying between two of them, and
\* the first five gone from the buffer
C16_Witness ==
    /\ Len(inserted) = 25
    /\ inserted[25] - inserted[1] > 43200
    /\ inserted[25] - inserted[1] < 24 * 3600
    /\ Len(past_predictions) = 20
    /\ past_predictions[1].timestamp = inserted[6]

\* C17 as stated: in every reachable state no retained record is 24 hours
\* old or older.
C17_NeverOlderThanDay ==
    \A i \in DOMAIN past_predictions :
        now - past_predictions[i].timestamp < 24 * 3600

\* C17 amended: no retained record was 24 hours old or older when the last
\* record operation ran; a record that was exactly 24 hours old then is
\* gone, and every record younger than that is kept while there are at
\* most 20 of them.
C17_YoungerThanDayAtLastRecord ==
    inserted # <<>> =>
        /\ \A i \in DOMAIN past_predictions :
              Last(inserted) - past_predictions[i].timestamp < 24 * 3600
        /\ \A k \in DOMAIN inserted :
              (/\ Last(inserted) - inserted[k] < 24 * 3600
               /\ Len(inserted) - k < 20)
              => \E i \in DOMAIN past_predictions :
                    past_predictions[i].timestamp = inserted[k]

\* a record operation exactly 24 hours after the previous one leaves only
\* the new record
C17_Witness ==
    /\ Len(inserted) = 2
    /\ inserted[2] - inserted[1] = 24 * 3600
    /\ Len(past_predictions) = 1
    /\ past_predictions[1].timestamp = inserted[2]

(***************************************************************************)
(* SpecCallback: _get_spicy_callback over buffers of up to two records     *)
(* left by _track_prediction, with prices that move and a clock that       *)
(* advances between the requests.                                          *)
(***************************************************************************)
\* the keys of sentiment_map, and a mood it does not list
SentimentMoods ==
    {"bullish", "bearish", "neutral", "volatile", "recovering", "euphoric"}

\* moods of the second record of a buffer
LaterMoods == {"bullish", "bearish", "neutral"}

\* prices recorded with the first record: an ordinary one and zero
RecordedPrices == {100, 0}

\* seconds between the first and the second record
RecordGaps == {1800, 7200}

\* buffers _track_prediction leaves after no, one or two calls
TrackedBuffers ==
    LET text == <<"volume", "up">>
        one == {TrackPrediction(<<>>, tk, text, m, p, 0) :
                   tk \in Tokens, m \in SentimentMoods, p \in RecordedPrices}
        two == {TrackPrediction(b, tk, text, m, 100, g) :
                   b \in one, tk \in Tokens, m \in LaterMoods, g \in RecordGaps}
    IN {<<>>} \cup one \cup two

\* snapshots seen at a callback request, around 2% and 4% below and 2%
\* above a recorded price of 100
CallbackSnapshots ==
    LET btc == {Quote(p, 100, 0) : p \in {95, 96, 97, 98, 102, 103}}
        eth == {Quote(103, 100, 0)}
    IN {("BTC" :> b) : b \in btc} \cup {("ETH" :> e) : e \in eth}
       \cup {("BTC" :> b) @@ ("ETH" :> e) : b \in btc, e \in eth}

InitCallback ==
    /\ pc = "tokens"
    /\ past_predictions \in TrackedBuffers
    /\ inserted = [i \in DOMAIN past_predictions |-> past_predictions[i].timestamp]
    /\ indicators = EmptyDict
    /\ start = Running
    /\ db = EmptyDatabase
    /\ now = IF inserted = <<>> THEN 0 ELSE Last(inserted)
    /\ last_check_time = 0
    /\ last_market_data = EmptyDict
    /\ market_data \in CallbackSnapshots
    /\ available_tokens = <<>>
    /\ token_to_analyze = ""
    /\ decision = NoDecision
    /\ analysis = NoText
    /\ retry_count = 0
    /\ market_rows = <<>>
    /\ posted_content = <<>>
    /\ tweets = <<>>
    /\ cycles = 0
    /\ faults = 0
    /\ baseline_before = EmptyDict
    /\ previous_market_data = EmptyDict
    /\ evaluated = <<>>
    /\ posted_in_cycle = 0
    /\ utc_offset = 0
    /\ emitted_in_cycle = FALSE
    /\ last_emitting_cycle = 0
    /\ last_cycle_end = 0
    /\ emit_snapshot = EmptyDict
    /\ emit_snapshot_before = EmptyDict
    /\ filter_call = NoCall
    /\ callback = None

\* _get_spicy_callback called at line 1033 for a token of the snapshot
CallbackCall ==
    /\ \E tk \in DOMAIN market_data :
          /\ token_to_analyze' = tk
          /\ past_predictions' =
                 ResolvePending(past_predictions, tk, CurrentPrices, now)
          /\ callback' =
                 GetSpicyCallback(past_predictions, tk, CurrentPrices, now)
    /\ pc' = "analyze"
    /\ UNCHANGED <<now, last_check_time, last_market_data, market_data,
                   available_tokens, decision, analysis, retry_count,
                   market_rows, posted_content, tweets, cycles, faults,
                   baseline_before, previous_market_data, evaluated,
                   posted_in_cycle, utc_offset, emitted_in_cycle,
                   last_emitting_cycle, last_cycle_end, emit_snapshot,
                   emit_snapshot_before, filter_call, inserted,
                   indicators, start, db>>

\* a later cycle fetches another snapshot; the callback of the cycle before
\* is gone with its local variable
PricesMove ==
    /\ cycles < MaxCycles
    /\ cycles' = cycles + 1
    /\ \E data \in CallbackSnapshots \ {market_data} : market_data' = data
    /\ pc' = "tokens"
    /\ callback' = None
    /\ UNCHANGED <<now, last_check_time, last_market_data, past_predictions,
                   available_tokens, token_to_analyze, decision, analysis,
                   retry_count, market_rows, posted_content, tweets,
                   faults, baseline_before, previous_market_data, evaluated,
                   posted_in_cycle, utc_offset, emitted_in_cycle,
                   last_emitting_cycle, last_cycle_end, emit_snapshot,
                   emit_snapshot_before, filter_call, inserted,
                   indicators, start, db>>

NextCallback == CallbackCall \/ PricesMove \/ ClockAdvances

SpecCallback == InitCallback /\ [][NextCallback]_vars

\* a step that is a callback request
IsCallback == pc' = "analyze" /\ now' = now /\ market_data' = market_data

\* weight of a sentiment as documented, in halves: bullish +1, bearish -1,
\* neutral and volatile 0, recovering +0.5
DocumentedWeight2(mood) ==
    IF mood = "bullish" THEN 2
    ELSE IF mood = "bearish" THEN -2
    ELSE IF mood = "recovering" THEN 1
    ELSE 0

\* weight * percent_delta < -2 for some captured asset, with
\* percent_delta = (current - recorded) / recorded * 100; an asset recorded
\* at price 0 has no percent_delta
DocumentedWrong(p, prices) ==
    \E tk \in DOMAIN p.prices :
        /\ tk \in DOMAIN prices
        /\ p.prices[tk] > 0
        /\ DocumentedWeight2(p.sentiment) * (prices[tk] - p.prices[tk]) * 100
             < (0 - 2) * 2 * p.prices[tk]

\* record i is resolved by this step
ResolvedNow(i) ==
    /\ past_predictions[i].outcome = "pending"
    /\ past_predictions'[i].outcome # "pending"

C18_Step ==
    \A i \in DOMAIN past_predictions :
        ResolvedNow(i) =>
            LET p == past_predictions[i]
                outcome == past_predictions'[i].outcome
            IN /\ outcome \in {"right", "wrong"}
               /\ outcome = "wrong" <=> DocumentedWrong(p, CurrentPrices)
               /\ p.sentiment \in {"neutral", "volatile"} => outcome = "right"
               /\ \A tk \in DOMAIN p.prices :
                     (/\ tk \in DOMAIN CurrentPrices
                      /\ \/ /\ p.sentiment = "bullish"
                            /\ CurrentPrices[tk] * 100 = 98 * p.prices[tk]
                         \/ /\ p.sentiment = "bearish"
                            /\ CurrentPrices[tk] * 100 = 102 * p.prices[tk])
                     => outcome = "right"

\* C18: a record is resolved to wrong exactly when weight * percent_delta
\* is below -2 for a captured asset, and to right otherwise; neutral and
\* volatile records are never wrong and a move of exactly 2% against a
\* bullish or bearish call is right.
C18_WrongIffBeyondTwoPercent == [][IsCallback => C18_Step]_vars

\* at the first snapshot, BTC at 98: a recovering and a bullish record
\* made at 100 are both resolved to right
C18_Witness ==
    /\ pc = "analyze" /\ cycles = 0
    /\ Len(past_predictions) = 2
    /\ past_predictions[1].token = "BTC" /\ past_predictions[2].token = "BTC"
    /\ past_predictions[1].sentiment = "recovering"
    /\ past_predictions[1].prices["BTC"] = 100
    /\ past_predictions[2].sentiment = "bullish"
    /\ token_to_analyze = "BTC"
    /\ CurrentPrices["BTC"] = 98
    /\ now - past_predictions[1].timestamp < 24 * 3600
    /\ past_predictions[1].outcome = "right"
    /\ past_predictions[2].outcome = "right"

C19_Step ==
    \A i \in DOMAIN past_predictions :
        past_predictions[i].outcome \in {"right", "wrong"} =>
            \A j \in DOMAIN past_predictions' :
                past_predictions'[j].timestamp = past_predictions[i].timestamp
                    => past_predictions'[j].outcome = past_predictions[i].outcome

\* C19: once the outcome of a record is right or wrong, no later step
\* changes it, whatever the prices of later callback requests.
C19_OutcomeNeverChanges == [][C19_Step]_vars

\* a callback request made at prices that would resolve the record the
\* other way: the record is wrong and referred to, though at the current
\* prices it would be right
C19_Witness ==
    /\ pc = "analyze"
    /\ callback # None
    /\ \E i \in DOMAIN past_predictions :
          /\ past_predictions[i].timestamp = callback.timestamp
          /\ past_predictions[i].token = token_to_analyze
          /\ past_predictions[i].outcome = "wrong"
          /\ ~DocumentedWrong(past_predictions[i], CurrentPrices)

\* records of the asset asked about made within the last 24 hours
InWindow(tk) ==
    {i \in DOMAIN past_predictions :
        /\ past_predictions[i].token = tk
        /\ now - past_predictions[i].timestamp < 24 * 3600}

C20_Step ==
    LET tk == token_to_analyze'
        wrong == {i \in InWindow(tk) : past_predictions'[i].outcome = "wrong"}
    IN /\ Len(past_predictions') = Len(past_predictions)
       /\ wrong = {} => callback' = None
       /\ wrong # {} =>
             \E i \in wrong :
                 /\ \A j \in wrong : past_predictions[j].timestamp
                                        <= past_predictions[i].timestamp
                 /\ callback' # None
                 /\ callback'.timestamp = past_predictions[i].timestamp
                 /\ callback'.token = tk
                 /\ callback'.time_ago >= 1
                 /\ \/ /\ now - past_predictions[i].timestamp < 3600
                       /\ callback'.time_ago = 1
                    \/ /\ callback'.time_ago * 3600
                            <= now - past_predictions[i].timestamp
                       /\ now - past_predictions[i].timestamp
                            < (callback'.time_ago + 1) * 3600
       /\ \A i \in DOMAIN past_predictions \ InWindow(tk) :
             past_predictions'[i] = past_predictions[i]

\* C20: a callback request returns nothing when the asset has no record of
\* the last 24 hours or none of them is wrong after resolution; otherwise
\* it refers to the wrong record of the asset created last, with the
\* elapsed whole hours, at least 1; records of other assets and records
\* older than the window are left as they were and not referred to.
C20_CallbackRefersToLatestWrong == [][IsCallback => C20_Step]_vars

\* two wrong records of the asset asked about, the later one referred to,
\* less than an hour old and reported as 1 hour
C20_Witness ==
    /\ pc = "analyze"
    /\ Len(past_predictions) = 2
    /\ past_predictions[1].token = token_to_analyze
    /\ past_predictions[2].token = token_to_analyze
    /\ past_predictions[1].outcome = "wrong"
    /\ past_predictions[2].outcome = "wrong"
    /\ now - past_predictions[1].timestamp < 24 * 3600
    /\ now - past_predictions[2].timestamp < 3600
    /\ callback # None
    /\ callback.timestamp = past_predictions[2].timestamp
    /\ callback.time_ago = 1

(***************************************************************************)
(* SpecVolumeTrend: one call of _analyze_volume_trend on the snapshot's    *)
(* volume and the rolling window read from the market_data table.          *)
(***************************************************************************)
\* current volumes: around -15%, -5%, 0, +5% and +15% of 100 and of 20
TrendVolumes ==
    {0, 17, 19, 20, 21, 23, 80, 84, 85, 86, 94, 95, 96, 100, 104, 105, 106,
     114, 115, 116, 120}

\* a row of BTC stamped age seconds ago
TrendRow(age, volume) ==
    [timestamp |-> 0 - age, chain |-> "BTC", volume |-> volume]

\* tables: empty, only a row older than the window, windows of mean 100, 20
\* and 0, and a window behind an older row
TrendTables ==
    {<<>>,
     <<TrendRow(7200, 100)>>,
     <<TrendRow(600, 100)>>,
     <<TrendRow(600, 20)>>,
     <<TrendRow(600, 0)>>,
     <<TrendRow(600, 0), TrendRow(300, 0)>>,
     <<TrendRow(600, 90), TrendRow(300, 110)>>,
     <<TrendRow(7200, 500), TrendRow(600, 100)>>}

InitVolumeTrend ==
    /\ pc = "analyze"
    /\ now = 0
    /\ last_check_time = 0
    /\ last_market_data = EmptyDict
    /\ past_predictions = <<>>
    /\ market_data \in {("BTC" :> Quote(100, v, 0)) : v \in TrendVolumes}
    /\ available_tokens = <<>>
    /\ token_to_analyze = "BTC"
    /\ decision = NoDecision
    /\ analysis = NoText
    /\ retry_count = 0
    /\ market_rows \in TrendTables
    /\ posted_content = <<>>
    /\ tweets = <<>>
    /\ cycles = 0
    /\ faults = 0
    /\ baseline_before = EmptyDict
    /\ previous_market_data = EmptyDict
    /\ evaluated = <<>>
    /\ posted_in_cycle = 0
    /\ utc_offset = 0
    /\ emitted_in_cycle = FALSE
    /\ last_emitting_cycle = 0
    /\ last_cycle_end = 0
    /\ emit_snapshot = EmptyDict
    /\ emit_snapshot_before = EmptyDict
    /\ filter_call = NoCall
    /\ callback = None
    /\ inserted = <<>>
    /\ indicators = EmptyDict
    /\ start = Running
    /\ db = EmptyDatabase

\* _analyze_volume_trend called as at lines 581-584, on the token's volume
\* and its window of VOLUME_WINDOW_MINUTES
VolumeTrendCall ==
    /\ indicators' =
           (token_to_analyze :>
               AnalyzeVolumeTrend(
                   market_data[token_to_analyze].volume,
                   GetHistoricalVolumeData(market_rows, token_to_analyze,
                                           VOLUME_WINDOW_MINUTES, now)))
    /\ UNCHANGED <<pc, now, last_check_time, last_market_data,
                   past_predictions, market_data, available_tokens,
                   token_to_analyze, decision, analysis, retry_count,
                   market_rows, posted_content, tweets, cycles, faults,
                   baseline_before, previous_market_data, evaluated,
                   posted_in_cycle, utc_offset, emitted_in_cycle,
                   last_emitting_cycle, last_cycle_end, emit_snapshot,
                   emit_snapshot_before, filter_call, callback, inserted, start, db>>

SpecVolumeTrend == InitVolumeTrend /\ [][VolumeTrendCall]_vars

\* the call has returned
TrendReturned == Has(indicators, token_to_analyze)

\* the window the call read: volumes of the token's rows of the last hour
TrendWindow ==
    LET idx == {i \in DOMAIN market_rows :
                   /\ market_rows[i].chain = token_to_analyze
                   /\ now - market_rows[i].timestamp <= 60 * 60}
    IN [i \in idx |-> market_rows[i].volume]

TrendWindowSum == SumSet(TrendWindow, DOMAIN TrendWindow)

TrendWindowSize == Cardinality(DOMAIN TrendWindow)

\* C21: the call returns (0% change, insufficient_data) if and only if the
\* window is empty.
C21_InsufficientIffEmptyWindow ==
    TrendReturned =>
        LET r == indicators[token_to_analyze]
        IN (r.num = 0 /\ r.trend = "insufficient_data")
              <=> DOMAIN TrendWindow = {}

\* the table holds a row, but none within the window
C21_Witness ==
    /\ TrendReturned
    /\ market_rows # <<>>
    /\ DOMAIN TrendWindow = {}
    /\ indicators[token_to_analyze].trend = "insufficient_data"

\* the class the documented thresholds give to the change
\* 100 * (current - mean) / mean, for a window of positive mean
DocumentedClass ==
    LET \* current volume and mean, both times the size of the window
        cur == market_data[token_to_analyze].volume * TrendWindowSize
        mean == TrendWindowSum
    IN IF 100 * (cur - mean) >= 15 * mean THEN "significant_increase"
       ELSE IF 100 * (cur - mean) >= 5 * mean THEN "moderate_increase"
       ELSE IF 100 * (cur - mean) > (0 - 5) * mean THEN "stable"
       ELSE IF 100 * (cur - mean) > (0 - 15) * mean THEN "moderate_decrease"
       ELSE "significant_decrease"

\* C22: with a non-empty window of non-zero mean the change falls in the
\* class of its bracket: at or above +15% significant_increase, from +5%
\* up to +15% moderate_increase, between -5% and +5% stable, from -15% down
\* to -5% moderate_decrease, at or below -15% significant_decrease.
C22_ClosedMonotoneClasses ==
    (TrendReturned /\ TrendWindowSize > 0 /\ TrendWindowSum # 0) =>
        LET r == indicators[token_to_analyze]
        IN /\ r.trend = DocumentedClass
           /\ r.num * TrendWindowSum
                = 100 * (market_data[token_to_analyze].volume * TrendWindowSize
                            - TrendWindowSum) * r.den

\* exactly +15% over a window of two rows
C22_Witness ==
    /\ TrendReturned
    /\ TrendWindowSize = 2 /\ TrendWindowSum = 200
    /\ market_data[token_to_analyze].volume = 115
    /\ indicators[token_to_analyze].trend = "significant_increase"

\* C23: a non-empty window whose mean is zero makes the call return
\* (0.0, error).
C23_ZeroMeanIsError ==
    (TrendReturned /\ TrendWindowSize > 0 /\ TrendWindowSum = 0) =>
        LET r == indicators[token_to_analyze]
        IN r.num = 0 /\ r.trend = "error"

\* two rows of volume 0 in the window, current volume 100
C23_Witness ==
    /\ TrendReturned
    /\ TrendWindowSize = 2 /\ TrendWindowSum = 0
    /\ market_data[token_to_analyze].volume = 100
    /\ indicators[token_to_analyze].trend = "error"

(***************************************************************************)
(* SpecSmartMoney: one smart-money check of _should_post_update (lines     *)
(* 966-971) on a token of the snapshot, over tables of hourly and older    *)
(* rows, with and without the row of the snapshot itself.                  *)
(***************************************************************************)
\* current volumes: around the z-score threshold over windows of mean 100
\* and around 1.5 times a daily average of 100
SmartVolumes == {0, 100, 102, 103, 104, 105, 150, 151, 300, 500}

\* 24h changes around the 2% bound of stealth accumulation
SmartChanges == {-3, -2, -1, 0, 1, 2, 3}

\* what the provider returned for the token: a quote, or one whose 24h
\* change is missing
SmartQuotes ==
    {Quote(100, v, ch) : v \in SmartVolumes, ch \in SmartChanges}
    \cup {[current_price |-> 100, volume |-> v] : v \in SmartVolumes}

\* volumes stored within the last hour, oldest first
HourlyParts ==
    {<<>>, <<100>>, <<0>>, <<100, 100>>, <<98, 100, 102>>,
     <<100, 100, 100, 100>>, <<100, 100, 100, 100, 500>>}

\* volumes stored two hours ago
OlderParts == {<<>>, <<100>>, <<200>>, <<0>>}

\* the table: the older rows, the rows of the last hour five minutes
\* apart, and the row of the snapshot when its write succeeded
SmartTable(older, hourly, quote, stored) ==
    [i \in DOMAIN older |-> TrendRow(7200, older[i])]
    \o [i \in DOMAIN hourly |-> TrendRow(300 * (Len(hourly) - i + 1), hourly[i])]
    \o (IF stored THEN <<TrendRow(0, quote.volume)>> ELSE <<>>)

InitSmartMoney ==
    /\ pc = "tokens"
    /\ now = 0
    /\ last_check_time = 0
    /\ last_market_data = EmptyDict
    /\ past_predictions = <<>>
    /\ \E q \in SmartQuotes, older \in OlderParts, hourly \in HourlyParts,
          stored \in BOOLEAN :
          /\ market_data = ("BTC" :> q)
          /\ market_rows = SmartTable(older, hourly, q, stored)
    /\ available_tokens = <<>>
    /\ token_to_analyze = "BTC"
    /\ decision = NoDecision
    /\ analysis = NoText
    /\ retry_count = 0
    /\ posted_content = <<>>
    /\ tweets = <<>>
    /\ cycles = 0
    /\ faults = 0
    /\ baseline_before = EmptyDict
    /\ previous_market_data = EmptyDict
    /\ evaluated = <<>>
    /\ posted_in_cycle = 0
    /\ utc_offset = 0
    /\ emitted_in_cycle = FALSE
    /\ last_emitting_cycle = 0
    /\ last_cycle_end = 0
    /\ emit_snapshot = EmptyDict
    /\ emit_snapshot_before = EmptyDict
    /\ filter_call = NoCall
    /\ callback = None
    /\ inserted = <<>>
    /\ indicators = EmptyDict
    /\ start = Running
    /\ db = EmptyDatabase

\* lines 966-971: the signal of the token and the trigger derived from it
SmartMoneyCheck ==
    /\ indicators' =
           (token_to_analyze :>
               [smart_money |->
                    AnalyzeSmartMoneyIndicators(
                        market_data[token_to_analyze],
                        GetHistoricalVolumeData(market_rows, token_to_analyze,
                                                60, now),
                        GetHistoricalVolumeData(market_rows, token_to_analyze,
                                                DAILY_WINDOW_MINUTES, now)),
                trigger_reason |->
                    SmartMoneyReason(token_to_analyze, market_data,
                                     market_rows, now)])
    /\ UNCHANGED <<pc, now, last_check_time, last_market_data,
                   past_predictions, market_data, available_tokens,
                   token_to_analyze, decision, analysis, retry_count,
                   market_rows, posted_content, tweets, cycles, faults,
                   baseline_before, previous_market_data, evaluated,
                   posted_in_cycle, utc_offset, emitted_in_cycle,
                   last_emitting_cycle, last_cycle_end, emit_snapshot,
                   emit_snapshot_before, filter_call, callback, inserted, start, db>>

SpecSmartMoney == InitSmartMoney /\ [][SmartMoneyCheck]_vars

\* the check has run
SmartReturned == Has(indicators, token_to_analyze)

Signal == indicators[token_to_analyze].smart_money

TokenData == market_data[token_to_analyze]

HasChange == "price_change_percentage_24h" \in DOMAIN TokenData

\* rows of the token stamped within the last minutes minutes
WindowRows(minutes) ==
    {i \in DOMAIN market_rows :
        /\ market_rows[i].chain = token_to_analyze
        /\ now - market_rows[i].timestamp <= minutes * 60}

WindowCount(minutes) == Cardinality(WindowRows(minutes))

WindowSum(minutes) ==
    SumSet([i \in WindowRows(minutes) |-> market_rows[i].volume],
           WindowRows(minutes))

WindowSumOfSquares(minutes) ==
    SumSet([i \in WindowRows(minutes) |->
               market_rows[i].volume * market_rows[i].volume],
           WindowRows(minutes))

\* the hourly window in table order
HourlyVolumes ==
    LET rows == SelectSeq(market_rows,
                    LAMBDA r : /\ r.chain = token_to_analyze
                               /\ now - r.timestamp <= 3600)
    IN [i \in DOMAIN rows |-> rows[i].volume]

\* an average is zero: the mean of the window, or the current volume when
\* the window is empty
ZeroAverage(minutes) ==
    IF WindowCount(minutes) = 0 THEN TokenData.volume = 0
    ELSE WindowSum(minutes) = 0

\* C24 as stated: hourly volumes [100,100,100,100,500] and current volume
\* 500 give a positive z-score and abnormal_volume = true.
C24_SpikeIsAbnormal ==
    (/\ SmartReturned /\ HasChange
     /\ HourlyVolumes = <<100, 100, 100, 100, 500>>
     /\ TokenData.volume = 500)
    => /\ Signal.volume_z_score.sign = 1
       /\ Signal.abnormal_volume

\* C24 amended: hourly volumes [100,100,100,100,500] and current volume 500
\* give a positive z-score, of square 16/5 (about 1.79), and
\* abnormal_volume = false under the threshold of 2.0.
C24_SpikeIsBelowThreshold ==
    (/\ SmartReturned /\ HasChange
     /\ HourlyVolumes = <<100, 100, 100, 100, 500>>
     /\ TokenData.volume = 500)
    => /\ ~Signal.empty
       /\ Signal.volume_z_score.sign = 1
       /\ 5 * Signal.volume_z_score.num = 16 * Signal.volume_z_score.den
       /\ ~Signal.abnormal_volume

\* the snapshot's own row is the 500 of the window
C24_Witness ==
    /\ SmartReturned /\ HasChange
    /\ HourlyVolumes = <<100, 100, 100, 100, 500>>
    /\ TokenData.volume = 500
    /\ market_rows[Len(market_rows)].timestamp = now
    /\ Signal.volume_z_score.sign = 1
    /\ ~Signal.abnormal_volume

RECURSIVE Gcd(_, _)
Gcd(a, b) == IF b = 0 THEN a ELSE Gcd(b, a % b)

\* a / b = c / d for non-negative a, c and positive b, d, compared in
\* lowest terms
SameFraction(a, b, c, d) ==
    /\ a \div Gcd(a, b) = c \div Gcd(c, d)
    /\ b \div Gcd(a, b) = d \div Gcd(c, d)

\* C25: in a signal, z = (current - avg_hourly) / std_hourly with the mean
\* of the hourly window (the current volume when it is empty) and its
\* sample standard deviation (1 below two points), z = 0 when the
\* deviation is 0, and abnormal_volume iff |z| > 2.
C25_ZScoreAndThreshold ==
    (SmartReturned /\ ~Signal.empty) =>
        LET z == Signal.volume_z_score
            n == WindowCount(60)
            sum == WindowSum(60)
            cur == TokenData.volume
            \* n * (n-1) * sample variance
            nvar == n * WindowSumOfSquares(60) - sum * sum
            diff == n * cur - sum
        IN /\ z.den > 0
           /\ n = 0 => z.num = 0 /\ z.sign = 0
           /\ n = 1 => /\ z.num = (cur - sum) * (cur - sum) * z.den
                       /\ z.sign = (IF cur > sum THEN 1
                                    ELSE IF cur < sum THEN 0 - 1 ELSE 0)
           /\ (n >= 2 /\ nvar = 0) => z.num = 0 /\ z.sign = 0
           /\ (n >= 2 /\ nvar # 0) =>
                 /\ SameFraction(z.num, z.den, diff * diff * (n - 1), n * nvar)
                 /\ z.sign = (IF diff > 0 THEN 1
                              ELSE IF diff < 0 THEN 0 - 1 ELSE 0)
           /\ Signal.abnormal_volume <=> z.num > 2 * 2 * z.den

\* a z-score of exactly 2 over the window 98, 100, 102: not abnormal
C25_Witness ==
    /\ SmartReturned /\ ~Signal.empty
    /\ HourlyVolumes = <<98, 100, 102>>
    /\ TokenData.volume = 104
    /\ Signal.volume_z_score.num = 4 * Signal.volume_z_score.den
    /\ ~Signal.abnormal_volume

\* both sub-conditions of stealth accumulation, on the daily window
StealthConditions ==
    /\ Abs(TokenData.price_change_percentage_24h) < 2
    /\ IF WindowCount(1440) = 0 THEN FALSE
       ELSE 2 * TokenData.volume * WindowCount(1440) > 3 * WindowSum(1440)

\* C26 as stated: stealth_accumulation is true iff |24h change| < 2 and
\* current_volume > 1.5 * avg_daily.
C26_StealthIffBoth ==
    (SmartReturned /\ HasChange) =>
        (Signal.stealth_accumulation <=> StealthConditions)

\* C26 amended: whenever the analysis yields a signal, its
\* stealth_accumulation is true iff |24h change| < 2 and current_volume >
\* 1.5 * avg_daily; when the analysis fails on a zero hourly or daily
\* average the signal is empty and carries no true flag.
C26_StealthIffBothInSignal ==
    (SmartReturned /\ HasChange) =>
        /\ ~Signal.empty =>
              (Signal.stealth_accumulation <=> StealthConditions)
        /\ Signal.empty =>
              /\ ~Signal.stealth_accumulation
              /\ ZeroAverage(60) \/ ZeroAverage(1440)

\* a change of 1% and a volume of 151 against a daily average of 100
C26_Witness ==
    /\ SmartReturned /\ HasChange
    /\ TokenData.price_change_percentage_24h = 1
    /\ TokenData.volume = 151
    /\ WindowCount(1440) = 1 /\ WindowSum(1440) = 100
    /\ Signal.stealth_accumulation

\* C27: a failing sub-computation (a zero hourly or daily average, a
\* missing 24h change) yields the empty signal, and the smart_money trigger
\* does not fire.
C27_FailureGivesEmptySignal ==
    (SmartReturned /\ (~HasChange \/ ZeroAverage(60) \/ ZeroAverage(1440))) =>
        /\ Signal.empty
        /\ ~Signal.abnormal_volume /\ ~Signal.stealth_accumulation
        /\ indicators[token_to_analyze].trigger_reason = None

\* a zero hourly average under a volume that is 3 standard units off and
\* 1.5 times above the daily average
C27_Witness ==
    /\ SmartReturned /\ HasChange
    /\ ZeroAverage(60) /\ ~ZeroAverage(1440)
    /\ StealthConditions
    /\ Signal.empty
    /\ indicators[token_to_analyze].trigger_reason = None

(***************************************************************************)
(* SpecVsMarket: _analyze_token_vs_market called for the tokens of a bot   *)
(* that tracks three assets, on snapshots in which any of them may be      *)
(* missing.                                                                *)
(***************************************************************************)
ComparisonTokens == {"BTC", "ETH", "SOL"}

\* 24h changes of a token
ComparisonChanges == {-6, -1, 0, 2, 7}

ComparisonSnapshots ==
    UNION {[D -> {Quote(100, 100, ch) : ch \in ComparisonChanges}] :
              D \in SUBSET ComparisonTokens}

InitVsMarket ==
    /\ pc = "analyze"
    /\ now = 0
    /\ last_check_time = 0
    /\ last_market_data = EmptyDict
    /\ past_predictions = <<>>
    /\ market_data \in ComparisonSnapshots
    /\ available_tokens = <<>>
    /\ token_to_analyze = ""
    /\ decision = NoDecision
    /\ analysis = NoText
    /\ retry_count = 0
    /\ market_rows = <<>>
    /\ posted_content = <<>>
    /\ tweets = <<>>
    /\ cycles = 0
    /\ faults = 0
    /\ baseline_before = EmptyDict
    /\ previous_market_data = EmptyDict
    /\ evaluated = <<>>
    /\ posted_in_cycle = 0
    /\ utc_offset = 0
    /\ emitted_in_cycle = FALSE
    /\ last_emitting_cycle = 0
    /\ last_cycle_end = 0
    /\ emit_snapshot = EmptyDict
    /\ emit_snapshot_before = EmptyDict
    /\ filter_call = NoCall
    /\ callback = None
    /\ inserted = <<>>
    /\ indicators = EmptyDict
    /\ start = Running
    /\ db = EmptyDatabase

\* _analyze_token_vs_market(token, market_data) for a tracked token
VsMarketCall ==
    /\ \E tk \in ComparisonTokens :
          /\ token_to_analyze' = tk
          /\ indicators' =
                 (tk :> AnalyzeTokenVsMarketAmong(tk, market_data,
                                                  ComparisonTokens))
                 @@ indicators
    /\ UNCHANGED <<pc, now, last_check_time, last_market_data,
                   past_predictions, market_data, available_tokens,
                   decision, analysis, retry_count, market_rows,
                   posted_content, tweets, cycles, faults, baseline_before,
                   previous_market_data, evaluated, posted_in_cycle,
                   utc_offset, emitted_in_cycle, last_emitting_cycle,
                   last_cycle_end, emit_snapshot, emit_snapshot_before,
                   filter_call, callback, inserted, start, db>>

SpecVsMarket == InitVsMarket /\ [][VsMarketCall]_vars

Change(tk) == market_data[tk].price_change_percentage_24h

\* tracked assets other than tk that the snapshot holds
PresentPeers(tk) ==
    {p \in ComparisonTokens \ {tk} : p \in DOMAIN market_data}

\* the subjects whose comparison has been computed and is not empty
Compared == {a \in DOMAIN indicators : ~indicators[a].empty}

\* C28: same-sign changes are flagged correlated whatever their sizes,
\* opposite-sign changes never, and the flag of a pair is the same from
\* either side.
C28_CorrelatedBySign ==
    \A a \in Compared : \A b \in PresentPeers(a) :
        /\ b \in DOMAIN indicators[a].correlations
        /\ (\/ Change(a) > 0 /\ Change(b) > 0
            \/ Change(a) < 0 /\ Change(b) < 0)
              => indicators[a].correlations[b]
        /\ (\/ Change(a) > 0 /\ Change(b) < 0
            \/ Change(a) < 0 /\ Change(b) > 0)
              => ~indicators[a].correlations[b]
        /\ b \in Compared =>
              indicators[b].correlations[a] = indicators[a].correlations[b]

\* changes of +7 and +2 flagged correlated from both sides, and +7 and -6
\* flagged not correlated
C28_Witness ==
    /\ {"BTC", "ETH", "SOL"} \subseteq Compared
    /\ Change("BTC") = 7 /\ Change("ETH") = 2 /\ Change("SOL") = 0 - 6
    /\ indicators["BTC"].correlations["ETH"]
    /\ indicators["ETH"].correlations["BTC"]
    /\ ~indicators["BTC"].correlations["SOL"]

\* sum of the changes of the peers of tk that are present
PeerSum(tk) ==
    SumSet([p \in PresentPeers(tk) |-> Change(p)], PresentPeers(tk))

\* C29: performance_diff is the subject's change minus the mean change of
\* the tracked peers present in the snapshot, outperforming is
\* performance_diff > 0, and with no peer present the result is empty and
\* nothing is persisted.
C29_DiffAgainstPresentPeers ==
    \A a \in DOMAIN indicators :
        a \in DOMAIN market_data =>
            LET r == indicators[a]
                k == Cardinality(PresentPeers(a))
            IN /\ k = 0 => r.empty /\ ~r.stored
               /\ k > 0 =>
                     /\ ~r.empty /\ r.stored /\ r.den > 0
                     /\ r.num * k = (k * Change(a) - PeerSum(a)) * r.den
                     /\ r.outperforming_market
                           <=> k * Change(a) > PeerSum(a)

\* one of the two peers is absent: +7 against the one present peer at +2
\* is +5
C29_Witness ==
    /\ "BTC" \in Compared
    /\ DOMAIN market_data = {"BTC", "ETH"}
    /\ Change("BTC") = 7 /\ Change("ETH") = 2
    /\ indicators["BTC"].num = 5 * indicators["BTC"].den
    /\ indicators["BTC"].outperforming_market

\* a failed attempt of narrative generation or of publishing
FailedAttempt ==
    /\ pc \in {"analyze", "post"}
    /\ retry_count' = retry_count + 1

\* at most max_retries attempts per candidate, the last failure giving up
\* with nothing published and the next candidate taken
AtMostThreeAttempts ==
    /\ retry_count < max_retries
    /\ tweets' = tweets
    /\ pc' = IF retry_count' = max_retries THEN "tokens" ELSE pc

\* C30 as stated: generation and publishing make at most 3 attempts per
\* candidate and then give up, and the wait after the k-th failed attempt
\* is k * 10 seconds.
C30_ThreeAttemptsLinearBackoff ==
    [][FailedAttempt =>
          /\ AtMostThreeAttempts
          /\ now' = now + retry_count' * 10]_vars

\* C30: generation and publishing make at most 3 attempts per candidate
\* and then give up; the wait after the k-th failed attempt is k * 10
\* seconds, except that a publishing attempt that fails to find the post
\* button waits 2 seconds.
C30_ThreeAttemptsBackoffOrShortWait ==
    [][FailedAttempt =>
          /\ AtMostThreeAttempts
          /\ \/ now' = now + retry_count' * 10
             \/ pc = "post" /\ now' = now + 2]_vars

\* three failed attempts after the decision to post, 10 + 20 + 30 seconds
\* of waiting, and the candidate is given up
C30_Witness ==
    /\ pc = "tokens"
    /\ retry_count = max_retries
    /\ decision.should_post
    /\ now = decision.evaluated_at + 60

(***************************************************************************)
(* SpecStart: start() from its first line: the setup loop, the cycle loop  *)
(* with a KeyboardInterrupt that may arrive in any step, and the finally   *)
(* clause.  The retries of fetch, generation and publishing are explored   *)
(* by Spec; here each of them answers at its first attempt.                *)
(***************************************************************************)
max_setup_retries == 3

NotStarted ==
    [driver_ok |-> FALSE, logged_in |-> FALSE, failures |-> 0,
     exit_path |-> "none", interrupted_at |-> "", cleanups |-> 0]

InitStart ==
    /\ pc = "setup"
    /\ now = 0
    /\ last_check_time = 0
    /\ last_market_data = EmptyDict
    /\ past_predictions = <<>>
    /\ market_data = EmptyDict
    /\ available_tokens = <<>>
    /\ token_to_analyze = ""
    /\ decision = NoDecision
    /\ analysis = NoText
    /\ retry_count = 0
    /\ market_rows = <<>>
    /\ posted_content = <<>>
    /\ tweets = <<>>
    /\ cycles = 0
    /\ faults = 0
    /\ baseline_before = EmptyDict
    /\ previous_market_data = EmptyDict
    /\ evaluated = <<>>
    /\ posted_in_cycle = 0
    /\ utc_offset \in UtcOffsets
    /\ emitted_in_cycle = FALSE
    /\ last_emitting_cycle = 0
    /\ last_cycle_end = 0
    /\ emit_snapshot = EmptyDict
    /\ emit_snapshot_before = EmptyDict
    /\ filter_call = NoCall
    /\ callback = None
    /\ inserted = <<>>
    /\ indicators = EmptyDict
    /\ start = NotStarted
    /\ db = EmptyDatabase

\* lines 1312-1316 and 1326-1327: initialize_driver() returns false; the
\* third failed attempt leaves the while loop and raises
InitializeDriverFails ==
    /\ pc = "setup" /\ retry_count < max_setup_retries
    /\ retry_count' = retry_count + 1
    /\ now' = now + 10
    /\ start' = [start EXCEPT !.driver_ok = FALSE, !.logged_in = FALSE,
                              !.failures = @ + 1,
                              !.exit_path =
                                  IF retry_count' >= max_setup_retries
                                  THEN "setup_failure" ELSE @]
    /\ pc' = IF retry_count' >= max_setup_retries THEN "cleanup" ELSE "setup"
    /\ UNCHANGED <<last_check_time, last_market_data, past_predictions,
                   market_data, available_tokens, token_to_analyze, decision,
                   analysis, market_rows, posted_content, tweets, cycles,
                   faults, baseline_before, previous_market_data, evaluated,
                   posted_in_cycle, utc_offset, emitted_in_cycle,
                   last_emitting_cycle, last_cycle_end, emit_snapshot,
                   emit_snapshot_before, filter_call, callback, inserted,
                   indicators, db>>

\* line 1312: initialize_driver() returns true
InitializeDriverSucceeds ==
    /\ pc = "setup" /\ retry_count < max_setup_retries
    /\ start' = [start EXCEPT !.driver_ok = TRUE, !.logged_in = FALSE]
    /\ pc' = "login"
    /\ UNCHANGED <<now, last_check_time, last_market_data, past_predictions,
                   market_data, available_tokens, token_to_analyze, decision,
                   analysis, retry_count, market_rows, posted_content,
                   tweets, cycles, faults, baseline_before,
                   previous_market_data, evaluated, posted_in_cycle,
                   utc_offset, emitted_in_cycle, last_emitting_cycle,
                   last_cycle_end, emit_snapshot, emit_snapshot_before,
                   filter_call, callback, inserted, indicators, db>>

\* login failing and line 1322 falling through to the break
LoginFailsProceeds ==
    /\ pc = "login"
    /\ retry_count' = 0
    /\ now' = now + 15
    /\ start' = [start EXCEPT !.logged_in = FALSE, !.failures = @ + 1]
    /\ pc' = "loop"
    /\ UNCHANGED <<last_check_time, last_market_data, past_predictions,
                   market_data, available_tokens, token_to_analyze, decision,
                   analysis, market_rows, posted_content, tweets, cycles,
                   faults, baseline_before, previous_market_data, evaluated,
                   posted_in_cycle, utc_offset, emitted_in_cycle,
                   last_emitting_cycle, last_cycle_end, emit_snapshot,
                   emit_snapshot_before, filter_call, callback, inserted,
                   indicators, db>>

\* lines 1318-1322 and 1326-1327: _login_to_twitter() returns false
LoginFails ==
    /\ pc = "login"
    /\ retry_count' = retry_count + 1
    /\ now' = now + 15
    /\ start' = [start EXCEPT !.driver_ok = FALSE, !.logged_in = FALSE,
                              !.failures = @ + 1,
                              !.exit_path =
                                  IF retry_count' >= max_setup_retries
                                  THEN "setup_failure" ELSE @]
    /\ pc' = IF retry_count' >= max_setup_retries THEN "cleanup" ELSE "setup"
    /\ UNCHANGED <<last_check_time, last_market_data, past_predictions,
                   market_data, available_tokens, token_to_analyze, decision,
                   analysis, market_rows, posted_content, tweets, cycles,
                   faults, baseline_before, previous_market_data, evaluated,
                   posted_in_cycle, utc_offset, emitted_in_cycle,
                   last_emitting_cycle, last_cycle_end, emit_snapshot,
                   emit_snapshot_before, filter_call, callback, inserted,
                   indicators, db>>

\* lines 1318-1332: _login_to_twitter() returns true, the break, and the
\* cycle loop is entered (the setup counter is a local of start())
LoginSucceeds ==
    /\ pc = "login"
    /\ retry_count' = 0
    /\ start' = [start EXCEPT !.logged_in = TRUE]
    /\ pc' = "loop"
    /\ UNCHANGED <<now, last_check_time, last_market_data, past_predictions,
                   market_data, available_tokens, token_to_analyze, decision,
                   analysis, market_rows, posted_content, tweets, cycles,
                   faults, baseline_before, previous_market_data, evaluated,
                   posted_in_cycle, utc_offset, emitted_in_cycle,
                   last_emitting_cycle, last_cycle_end, emit_snapshot,
                   emit_snapshot_before, filter_call, callback, inserted,
                   indicators, db>>

\* lines 1351-1352: an exception of the setup calls reaches the outer
\* handler
SetupRaises ==
    /\ pc \in {"setup", "login"}
    /\ start' = [start EXCEPT !.exit_path = "error"]
    /\ pc' = "cleanup"
    /\ UNCHANGED <<now, last_check_time, last_market_data, past_predictions,
                   market_data, available_tokens, token_to_analyze, decision,
                   analysis, retry_count, market_rows, posted_content,
                   tweets, cycles, faults, baseline_before,
                   previous_market_data, evaluated, posted_in_cycle,
                   utc_offset, emitted_in_cycle, last_emitting_cycle,
                   last_cycle_end, emit_snapshot, emit_snapshot_before,
                   filter_call, callback, inserted, indicators, db>>

\* lines 1349-1350: KeyboardInterrupt inside the step in flight.  Nothing
\* between the step and start() catches it (the handlers on the way are
\* except Exception); what the step has done by then stays done.  An
\* interrupt inside _should_post_update arrives before or after the one
\* assignment to self.last_market_data; one inside _analyze_market_sentiment
\* before, inside or after _track_prediction.
Interrupt ==
    /\ pc \in {"setup", "login", "loop", "tokens", "analyze", "filter",
               "post", "sleep"}
    /\ start' = [start EXCEPT !.exit_path = "interrupt",
                              !.interrupted_at = pc]
    /\ pc' = "cleanup"
    /\ IF pc = "tokens" /\ available_tokens # <<>>
       THEN LET r == ShouldPostUpdate(Head(available_tokens), market_data,
                                      last_market_data, market_rows, now,
                                      last_check_time)
            IN /\ last_market_data' \in {last_market_data, r.last_market_data}
               /\ past_predictions' = past_predictions
       ELSE IF pc = "analyze" /\ retry_count < max_retries
       THEN /\ last_market_data' = last_market_data
            /\ \E text \in Analyses, mood \in Moods :
                  past_predictions' \in
                      InterruptedTrack(
                          ResolvePending(past_predictions, token_to_analyze,
                                         CurrentPrices, now),
                          token_to_analyze, text, mood,
                          market_data[token_to_analyze].current_price, now)
                      \cup {past_predictions}
       ELSE /\ last_market_data' = last_market_data
            /\ past_predictions' = past_predictions
    /\ UNCHANGED <<now, last_check_time, market_data, available_tokens,
                   token_to_analyze, decision, analysis, retry_count,
                   market_rows, posted_content, tweets, cycles, faults,
                   baseline_before, previous_market_data, evaluated,
                   posted_in_cycle, utc_offset, emitted_in_cycle,
                   last_emitting_cycle, last_cycle_end, emit_snapshot,
                   emit_snapshot_before, filter_call, callback, inserted,
                   indicators, db>>

\* the finally clause, line 1354: _cleanup()
Cleanup ==
    /\ pc = "cleanup"
    /\ start' = [start EXCEPT !.cleanups = @ + 1]
    /\ pc' = "exited"
    /\ UNCHANGED <<now, last_check_time, last_market_data, past_predictions,
                   market_data, available_tokens, token_to_analyze, decision,
                   analysis, retry_count, market_rows, posted_content,
                   tweets, cycles, faults, baseline_before,
                   previous_market_data, evaluated, posted_in_cycle,
                   utc_offset, emitted_in_cycle, last_emitting_cycle,
                   last_cycle_end, emit_snapshot, emit_snapshot_before,
                   filter_call, callback, inserted, indicators, db>>

NextStart ==
    \/ InitializeDriverFails
    \/ InitializeDriverSucceeds
    \/ LoginFails
    \/ LoginSucceeds
    \/ SetupRaises
    \/ Interrupt
    \/ Cleanup
    \/ Fetch
    \/ Evaluate
    \/ TokensExhausted
    \/ AnalyzeSucceeds
    \/ Filter
    \/ PostSucceeds
    \/ Sleep

SpecStart == InitStart /\ [][NextStart]_vars

\* the keys of a record of the prediction buffer (lines 690-697)
PredictionKeys ==
    {"timestamp", "token", "prediction", "prices", "sentiment", "outcome"}

OnlyCompleteRecords(predictions) ==
    \A i \in 1..Len(predictions) : DOMAIN predictions[i] = PredictionKeys

\* every asset of the snapshot carries a whole quote
WholeSnapshot(data) ==
    \A tk \in DOMAIN data :
        DOMAIN data[tk] =
            {"current_price", "volume", "price_change_percentage_24h"}

\* the loop has been left, or is being left, on a KeyboardInterrupt
LeftByInterrupt ==
    pc \in {"cleanup", "exited"} /\ start.exit_path = "interrupt"

\* C31: an interrupt that arrives during a cycle leaves no partial state:
\* the step in flight leaves the baseline as it found it or replaces it by
\* the whole current snapshot, the prediction buffer holds only complete
\* records, and once start() has exited cleanup has run.
C31_InterruptLeavesNoPartialState ==
    [][LeftByInterrupt' =>
          /\ \/ last_market_data' = last_market_data
             \/ last_market_data' = market_data /\ WholeSnapshot(market_data)
          /\ OnlyCompleteRecords(past_predictions')
          /\ pc' = "exited" => start'.cleanups = 1]_vars

\* start() has exited on an interrupt that arrived inside
\* _analyze_market_sentiment after the record was appended and before the
\* buffer was pruned, in a cycle whose decision had replaced the baseline
C31_Witness ==
    /\ pc = "exited"
    /\ start.exit_path = "interrupt"
    /\ start.interrupted_at = "analyze"
    /\ start.cleanups = 1
    /\ Len(past_predictions) = 1
    /\ inserted = <<>>
    /\ last_market_data = market_data
    /\ market_data # EmptyDict

\* the positions of _run_analysis_cycle and of the sleep that follows it
CyclePositions == {"tokens", "analyze", "filter", "post", "sleep"}

\* C39: the cycle loop is entered only after a browser initialisation and
\* a login have both succeeded in the same setup attempt; after 3 failed
\* setup attempts no cycle ever runs; on every exit path of start()
\* cleanup runs exactly once.
C39_SetupBeforeCyclesCleanupOnce ==
    /\ (pc \in CyclePositions \/ cycles > 0 \/ market_data # EmptyDict)
          => start.driver_ok /\ start.logged_in /\ start.failures < 3
    /\ start.failures >= max_setup_retries
          => /\ pc \in {"cleanup", "exited"}
             /\ start.exit_path = "setup_failure"
             /\ cycles = 0 /\ market_data = EmptyDict /\ evaluated = <<>>
             /\ market_rows = <<>> /\ tweets = <<>>
    /\ start.cleanups = (IF pc = "exited" THEN 1 ELSE 0)
    /\ pc = "exited"
          => start.exit_path \in {"setup_failure", "interrupt", "error"}

\* three failed setup attempts (driver, login, driver), no cycle, one
\* cleanup
C39_Witness ==
    /\ pc = "exited"
    /\ start.exit_path = "setup_failure"
    /\ start.failures = 3
    /\ now = 35
    /\ cycles = 0
    /\ start.cleanups = 1

(***************************************************************************)
(* SpecPersistence: the store calls of one cycle that publishes, in        *)
(* program order, each of which may fail in cursor.execute or in           *)
(* conn.commit(), and a get_recent_market_data(chain, hours=1) that may    *)
(* follow any of them.                                                     *)
(***************************************************************************)
\* failed store calls explored in one cycle
MaxWriteFaults == 2

\* the snapshot the cycle has fetched
PersistenceSnapshot ==
    ("BTC" :> Quote(100, 100, 0)) @@ ("ETH" :> Quote(105, 110, 0))

\* the store calls of a cycle that publishes an analysis of BTC, by the
\* line of bot.py that makes the call
CycleWrites ==
    <<[line |-> 413, table |-> "market_data", chain |-> "BTC"],
      [line |-> 413, table |-> "market_data", chain |-> "ETH"],
      [line |-> 669, table |-> "token_correlations", chain |-> "BTC"],
      [line |-> 607, table |-> "token_market_comparison", chain |-> "BTC"],
      [line |-> 1054, table |-> "mood_history", chain |-> "BTC"],
      [line |-> 1211, table |-> "posted_content", chain |-> "BTC"],
      [line |-> 1270, table |-> "smart_money_indicators", chain |-> "BTC"],
      [line |-> 607, table |-> "token_market_comparison", chain |-> "BTC"],
      [line |-> 1279, table |-> "token_market_comparison", chain |-> "BTC"]>>

StoreOutcomes == {"ok", "execute_fails", "commit_fails"}

\* local time minus UTC on the host: UTC, UTC+1 and UTC-5
HostOffsets == {0, 3600, -18000}

\* a database file an earlier run has left a BTC row in
UsedDatabase ==
    [EmptyDatabase EXCEPT
        !.tables["market_data"] =
            <<MarketDataRow("BTC", Quote(90, 80, 0), -600)>>]

InitPersistence ==
    /\ pc = "store"
    /\ now = 0
    /\ last_check_time = 0
    /\ last_market_data = EmptyDict
    /\ past_predictions = <<>>
    /\ market_data = PersistenceSnapshot
    /\ available_tokens = <<>>
    /\ token_to_analyze = "BTC"
    /\ decision = NoDecision
    /\ analysis = NoText
    /\ retry_count = 0
    /\ market_rows = <<>>
    /\ posted_content = <<>>
    /\ tweets = <<>>
    /\ cycles = 0
    /\ faults = 0
    /\ baseline_before = EmptyDict
    /\ previous_market_data = EmptyDict
    /\ evaluated = <<>>
    /\ posted_in_cycle = 0
    /\ utc_offset \in HostOffsets
    /\ emitted_in_cycle = FALSE
    /\ last_emitting_cycle = 0
    /\ last_cycle_end = 0
    /\ emit_snapshot = EmptyDict
    /\ emit_snapshot_before = EmptyDict
    /\ filter_call = NoCall
    /\ callback = None
    /\ inserted = <<>>
    /\ indicators = EmptyDict
    /\ start = Running
    /\ db \in {EmptyDatabase, UsedDatabase}

\* the next store call of the cycle; whatever its outcome the method
\* returns normally and the caller goes on to the step after it
StoreCall ==
    /\ pc = "store" /\ Len(db.calls) < Len(CycleWrites)
    /\ \E outcome \in StoreOutcomes :
          LET site == CycleWrites[Len(db.calls) + 1]
              row == IF site.table = "market_data"
                     THEN MarketDataRow(site.chain, market_data[site.chain],
                                        now)
                     ELSE [timestamp |-> now, chain |-> site.chain]
              d == StoreRow(db, site.table, row, outcome)
          IN /\ outcome = "ok" \/ faults < MaxWriteFaults
             /\ faults' = IF outcome = "ok" THEN faults ELSE faults + 1
             /\ db' = [d EXCEPT !.calls =
                          Append(@, [line |-> site.line,
                                     table |-> site.table,
                                     chain |-> site.chain,
                                     outcome |-> outcome, row |-> row])]
    /\ now' = now + 1
    /\ pc' = IF Len(db.calls) + 1 = Len(CycleWrites) THEN "sleep"
             ELSE "store"
    /\ UNCHANGED <<last_check_time, last_market_data, past_predictions,
                   market_data, available_tokens, token_to_analyze, decision,
                   analysis, retry_count, market_rows, posted_content,
                   tweets, cycles, baseline_before, previous_market_data,
                   evaluated, posted_in_cycle, utc_offset, emitted_in_cycle,
                   last_emitting_cycle, last_cycle_end, emit_snapshot,
                   emit_snapshot_before, filter_call, callback, inserted,
                   indicators, start>>

\* get_recent_market_data(chain, hours=1)
GetRecentCall ==
    /\ pc \in {"store", "sleep"}
    /\ \E chain \in DOMAIN market_data :
          db' = [db EXCEPT !.recent =
                    [asked |-> TRUE, chain |-> chain, at |-> now,
                     rows |-> GetRecentMarketData(db, chain, 1, now,
                                                  utc_offset)]]
    /\ pc' = "read"
    /\ UNCHANGED <<now, last_check_time, last_market_data, past_predictions,
                   market_data, available_tokens, token_to_analyze, decision,
                   analysis, retry_count, market_rows, posted_content,
                   tweets, cycles, faults, baseline_before,
                   previous_market_data, evaluated, posted_in_cycle,
                   utc_offset, emitted_in_cycle, last_emitting_cycle,
                   last_cycle_end, emit_snapshot, emit_snapshot_before,
                   filter_call, callback, inserted, indicators, start>>

NextPersistence == StoreCall \/ GetRecentCall

SpecPersistence == InitPersistence /\ [][NextPersistence]_vars

\* the store calls made so far that match the test
CallsWhere(Test(_)) == SelectSeq(db.calls, Test)

\* the rows this run has added to table tb
AddedRows(tb) ==
    LET all == db.tables[tb]
        before == IF tb = "market_data" /\ all # <<>>
                     /\ all[1].timestamp < 0
                  THEN 1 ELSE 0
    IN SubSeq(all, before + 1, Len(all))

RowsOf(calls) == [i \in 1..Len(calls) |-> calls[i].row]

TablesOf(calls) == [i \in 1..Len(calls) |-> calls[i].table]

\* C32: a failed persistence write is rolled back (no row of it is in its
\* table and none is left in the open transaction), logged once and not
\* retried, raises nothing, and the cycle goes on with the steps that
\* follow the write.
C32_FailedWriteRolledBackLoggedNotRetried ==
    /\ db.pending = <<>>
    /\ \A tb \in TableNames :
          AddedRows(tb) =
              RowsOf(CallsWhere(LAMBDA c : c.table = tb /\ c.outcome = "ok"))
    /\ db.errors = TablesOf(CallsWhere(LAMBDA c : c.outcome # "ok"))
    /\ \A i \in 1..Len(db.calls) :
          /\ db.calls[i].line = CycleWrites[i].line
          /\ db.calls[i].table = CycleWrites[i].table
          /\ db.calls[i].chain = CycleWrites[i].chain
    /\ pc \in {"store", "sleep", "read"}
    /\ pc = "sleep" => Len(db.calls) = Len(CycleWrites)

\* the commit of the posted_content row failed, the three writes after it
\* were made and succeeded, and the table has no row
C32_Witness ==
    /\ pc = "sleep"
    /\ db.calls[6].outcome = "commit_fails"
    /\ db.calls[7].outcome = "ok"
    /\ db.calls[9].outcome = "ok"
    /\ db.tables["posted_content"] = <<>>
    /\ Len(db.tables["smart_money_indicators"]) = 1
    /\ db.errors = <<"posted_content">>

\* the successful store_market_data calls made for the chain that was read
StoredFor(chain) ==
    CallsWhere(LAMBDA c : /\ c.table = "market_data" /\ c.chain = chain
                          /\ c.outcome = "ok")

\* C33: after store_market_data(chain, data) has succeeded,
\* get_recent_market_data(chain, hours=1) returns a non-empty list, most
\* recent first, whose first entry has the price and the volume of data;
\* rows of other chains are never returned.
C33_StoredRowIsReadBack ==
    db.recent.asked =>
        LET rows == db.recent.rows
            stored == StoredFor(db.recent.chain)
        IN /\ \A i \in 1..Len(rows) : rows[i].chain = db.recent.chain
           /\ \A i \in 1..Len(rows) - 1 :
                 rows[i].timestamp >= rows[i + 1].timestamp
           /\ stored # <<>> =>
                 /\ rows # <<>>
                 /\ rows[1].price = market_data[db.recent.chain].current_price
                 /\ rows[1].volume = market_data[db.recent.chain].volume

\* the candidate equals no text published before, and no text persisted
\* before the running cycle began
FreshNarrative ==
    /\ \A i \in 1..Len(tweets) : Strip(tweets[i]) # Strip(analysis)
    /\ \A i \in 1..Len(posted_content) :
          Strip(posted_content[i].content) = Strip(analysis)
              => cycles = 0 \/ posted_content[i].timestamp > last_cycle_end

C35_NoImmediateTriggerAfterEmit ==
    [][(pc = "tokens" /\ available_tokens # <<>> /\ emitted_in_cycle) =>
          LET tk == Head(available_tokens)
          IN /\ last_market_data = market_data
             /\ market_data[tk].current_price
                   = last_market_data[tk].current_price
             /\ market_data[tk].volume = last_market_data[tk].volume
             /\ decision'.trigger_reason
                   \notin {<<"price_change", tk>>, <<"volume_change", tk>>}]_vars

\* the first candidate of the cycle triggered and was dropped as a
\* duplicate; the second asset is then triggered by the regular interval
C35_Witness ==
    /\ Len(evaluated) = 2
    /\ emitted_in_cycle
    /\ filter_call.called /\ filter_call.is_duplicate
    /\ pc = "analyze"
    /\ decision.should_post
    /\ decision.trigger_reason = <<"regular_interval">>
    /\ last_market_data = market_data

\* the evaluated asset is in the snapshot and not in the non-empty baseline
NewAsset ==
    /\ HasEvaluated
    /\ Has(market_data, token_to_analyze)
    /\ baseline_before # EmptyDict
    /\ ~Has(baseline_before, token_to_analyze)

\* C36: for an asset of the snapshot that is absent from a non-empty
\* baseline none of the checks 1 to 5 counts: the decision is
\* regular_interval when the base interval has elapsed and no emission
\* otherwise, and only an emission replaces the baseline.
C36_NewAssetOnlyByInterval ==
    NewAsset =>
        /\ ~decision.raised
        /\ decision.should_post = CondInterval
        /\ decision.trigger_reason =
              (IF CondInterval THEN <<"regular_interval">> ELSE None)
        /\ last_market_data =
              (IF CondInterval THEN market_data ELSE baseline_before)

\* a new asset with a significant volume trend, a smart-money signal or an
\* outperformance, evaluated before the interval has elapsed: no emission
C36_Witness ==
    /\ NewAsset
    /\ CondTrend
    /\ CondSmart \/ CondOutperforming
    /\ ~CondInterval
    /\ ~decision.should_post
    /\ decision.trigger_reason = None

\* ages below 15 minutes, in seconds
YoungerAges == {0, 300, 899}

\* the filter was called with an empty fallback list and one persisted
\* post, aged between 15 and 30 minutes, and rejected the candidate
RejectedAgainstRecentPost ==
    /\ FilterAnswered
    /\ filter_call.last_posts = <<>>
    /\ Len(posted_content) = 1
    /\ RealAge(posted_content[1]) >= 15 * 60
    /\ RealAge(posted_content[1]) <= 30 * 60
    /\ filter_call.is_duplicate

\* the same call with the same post stamped age seconds ago
DuplicateAtAge(age) ==
    IsDuplicateAnalysis(analysis, <<>>,
                        <<[posted_content[1] EXCEPT !.timestamp = now - age]>>,
                        now - utc_offset, FALSE)

HourAges == <<3600, 3599, 1800, 1, 0>>

HourVolumes == {0, 100, 300}

\* at most MaxHourRows rows of the last hour, oldest first
MaxHourRows == 3

HourParts ==
    UNION {{[i \in DOMAIN pick |-> TrendRow(HourAges[pick[i]], vol[i])] :
               vol \in [DOMAIN pick -> HourVolumes]} :
           pick \in {p \in UNION {[1..n -> DOMAIN HourAges] :
                                     n \in 0..MaxHourRows} :
                        \A i, j \in DOMAIN p : i < j => p[i] < p[j]}}

\* rows of the hours before: none, or one an hour for eight hours
HourOlderParts ==
    {<<>>, [i \in 1..8 |-> TrendRow((10 - i) * 3600, 100)]}

\* the quote of the token, with or without its 24h change
HourQuotes ==
    {Quote(100, 100, 1), [current_price |-> 100, volume |-> 100]}

\* seconds the clock may advance between the query and the loop, and
\* between two rounds of the loop
ClockSteps == {0, 1}

InitUnusualHours ==
    /\ pc = "tokens"
    /\ now = 0
    /\ last_check_time = 0
    /\ last_market_data = EmptyDict
    /\ past_predictions = <<>>
    /\ \E q \in HourQuotes, older \in HourOlderParts, hourly \in HourParts :
          /\ market_data = ("BTC" :> q)
          /\ market_rows = older \o hourly
    /\ available_tokens = <<>>
    /\ token_to_analyze = "BTC"
    /\ decision = NoDecision
    /\ analysis = NoText
    /\ retry_count = 0
    /\ posted_content = <<>>
    /\ tweets = <<>>
    /\ cycles = 0
    /\ faults = 0
    /\ baseline_before = EmptyDict
    /\ previous_market_data = EmptyDict
    /\ evaluated = <<>>
    /\ posted_in_cycle = 0
    /\ utc_offset = 0
    /\ emitted_in_cycle = FALSE
    /\ last_emitting_cycle = 0
    /\ last_cycle_end = 0
    /\ emit_snapshot = EmptyDict
    /\ emit_snapshot_before = EmptyDict
    /\ filter_call = NoCall
    /\ callback = None
    /\ inserted = <<>>
    /\ indicators = EmptyDict
    /\ start = Running
    /\ db = EmptyDatabase

\* lines 473-548, the signal together with the window and the profile the
\* list was computed from; the except branch returns no list
UnusualHoursCheck ==
    /\ ~Has(indicators, token_to_analyze)
    /\ \E delay \in ClockSteps, tick \in ClockSteps :
          LET clock == [i \in 1..24 |-> now + delay + (i - 1) * tick]
              signal ==
                  AnalyzeSmartMoneyIndicators(
                      market_data[token_to_analyze],
                      GetHistoricalVolumeData(market_rows, token_to_analyze,
                                              60, now),
                      GetHistoricalVolumeData(market_rows, token_to_analyze,
                                              DAILY_WINDOW_MINUTES, now))
              hours == UnusualTradingHours(market_rows, token_to_analyze,
                                           now, clock)
          IN indicators' =
                 (token_to_analyze :>
                     [smart_money |-> signal,
                      hourly_data |-> hours.hourly_data,
                      volume_profile |->
                          IF signal.empty THEN <<>> ELSE hours.volume_profile,
                      unusual_trading_hours |->
                          IF signal.empty THEN <<>>
                          ELSE hours.unusual_trading_hours])
    /\ UNCHANGED <<pc, now, last_check_time, last_market_data,
                   past_predictions, market_data, available_tokens,
                   token_to_analyze, decision, analysis, retry_count,
                   market_rows, posted_content, tweets, cycles, faults,
                   baseline_before, previous_market_data, evaluated,
                   posted_in_cycle, utc_offset, emitted_in_cycle,
                   last_emitting_cycle, last_cycle_end, emit_snapshot,
                   emit_snapshot_before, filter_call, callback, inserted,
                   start, db>>

SpecUnusualHours == InitUnusualHours /\ [][UnusualHoursCheck]_vars

\* the call returned a signal, not the empty dict of the except branch
HoursReturned ==
    /\ Has(indicators, token_to_analyze)
    /\ ~indicators[token_to_analyze].smart_money.empty

HoursSignal == indicators[token_to_analyze]

QuietQuote == Quote(100, 100, 0)

\* the assets the provider returns: the first of the reference list
QuietTokens == SubSeq(reference_tokens, 1, 1)

QuietData == [tk \in {QuietTokens[i] : i \in DOMAIN QuietTokens} |-> QuietQuote]

\* seconds one _should_post_update call may take
EvaluationTimes == {0, BASE_INTERVAL - 1}

OldestStamp == 0 - DAILY_WINDOW_MINUTES * 60

\* market_data with the origin of time moved forward by shift
RebaseRows(rows, shift) ==
    SelectSeq([i \in DOMAIN rows |->
                  [rows[i] EXCEPT !.timestamp = @ - shift]],
              LAMBDA r : r.timestamp >= OldestStamp)

\* an instant with the origin of time moved forward by shift
RebaseInstant(t, shift) == Max(t - shift, OldestStamp - 1)

\* posts or predictions with the origin of time moved forward by shift
RebaseStamps(records, shift) ==
    [i \in DOMAIN records |->
        [records[i] EXCEPT !.timestamp = RebaseInstant(@, shift)]]

\* market_data after a day of the loop on the quiet market, a cycle every
\* base interval: the rows the first cycle can still read when the bot is
\* started again
QuietHistory ==
    LET n == (DAILY_WINDOW_MINUTES * 60) \div BASE_INTERVAL
    IN [i \in 1..(n * Len(QuietTokens)) |->
           LET cycle == (i - 1) \div Len(QuietTokens)
               tk == QuietTokens[((i - 1) % Len(QuietTokens)) + 1]
           IN [timestamp |-> 0 - (n - cycle) * BASE_INTERVAL, chain |-> tk,
               volume |-> QuietQuote.volume]]

\* the bot is constructed over that database; no collaborator fails (the
\* failures explored in one run are spent)
InitQuiet ==
    /\ pc = "loop"
    /\ now = 0
    /\ last_check_time = 0
    /\ last_market_data = EmptyDict
    /\ past_predictions = <<>>
    /\ market_data = EmptyDict
    /\ available_tokens = <<>>
    /\ token_to_analyze = ""
    /\ decision = NoDecision
    /\ analysis = NoText
    /\ retry_count = 0
    /\ market_rows = QuietHistory
    /\ posted_content = <<>>
    /\ tweets = <<>>
    /\ cycles = 0
    /\ faults = MaxFaults
    /\ baseline_before = EmptyDict
    /\ previous_market_data = EmptyDict
    /\ evaluated = <<>>
    /\ posted_in_cycle = 0
    /\ utc_offset \in UtcOffsets
    /\ emitted_in_cycle = FALSE
    /\ last_emitting_cycle = 0
    /\ last_cycle_end = 0
    /\ emit_snapshot = EmptyDict
    /\ emit_snapshot_before = EmptyDict
    /\ filter_call = NoCall
    /\ callback = None
    /\ inserted = <<>>
    /\ indicators = EmptyDict
    /\ start = Running
    /\ db = EmptyDatabase

\* _get_crypto_data succeeds with the quiet snapshot, every row is stored;
\* then lines 1242-1249
QuietFetch ==
    /\ pc = "loop"
    /\ \E order \in Shuffles(DOMAIN QuietData) :
          /\ market_data' = QuietData
          /\ market_rows' =
                StoreAll(market_rows, QuietData, QuietTokens, now)
          /\ available_tokens' = order
    /\ evaluated' = <<>>
    /\ posted_in_cycle' = 0
    /\ pc' = "tokens"
    /\ UNCHANGED <<now, last_check_time, last_market_data, past_predictions,
                   token_to_analyze, decision, analysis, retry_count,
                   posted_content, tweets, cycles, faults, baseline_before,
                   previous_market_data, utc_offset, emitted_in_cycle,
                   last_emitting_cycle, last_cycle_end, emit_snapshot,
                   emit_snapshot_before, filter_call, callback, inserted,
                   indicators, start, db>>

\* lines 1252-1255 and 1297-1298, the call taking some time: the interval
\* check of line 982 reads the clock at its end
QuietEvaluate ==
    /\ pc = "tokens" /\ available_tokens # <<>>
    /\ \E took \in EvaluationTimes :
          LET t == now + took
              token == Head(available_tokens)
              r == ShouldPostUpdate(token, market_data, last_market_data,
                                    market_rows, t, last_check_time)
          IN /\ t - last_check_time < BASE_INTERVAL
             /\ now' = t
             /\ token_to_analyze' = token
             /\ available_tokens' = Tail(available_tokens)
             /\ evaluated' = Append(evaluated, token)
             /\ baseline_before' = last_market_data
             /\ last_market_data' = r.last_market_data
             /\ decision' =
                   [raised |-> r.raised, should_post |-> r.should_post,
                    trigger_reason |-> r.trigger_reason, evaluated_at |-> t]
             /\ emitted_in_cycle' = (emitted_in_cycle \/ r.should_post)
             /\ emit_snapshot_before' = emit_snapshot
             /\ emit_snapshot' = IF r.should_post THEN market_data
                                 ELSE emit_snapshot
             /\ pc' = IF r.raised THEN "sleep"
                      ELSE IF r.should_post THEN "analyze" ELSE "tokens"
    /\ retry_count' = 0
    /\ UNCHANGED <<last_check_time, past_predictions, market_data, analysis,
                   market_rows, posted_content, tweets, cycles, faults,
                   previous_market_data, posted_in_cycle, utc_offset,
                   last_emitting_cycle, last_cycle_end, filter_call,
                   callback, inserted, indicators, start, db>>

\* start(), lines 1336-1343, as Sleep, the instant of the restamp becoming
\* the origin of time
QuietSleep ==
    /\ pc = "sleep"
    /\ LET time_since_last == now - last_check_time
           sleep_time == Max(0, BASE_INTERVAL - time_since_last)
           shift == now + sleep_time
       IN /\ now' = 0
          /\ last_check_time' = 0
          /\ last_emitting_cycle' =
                IF emitted_in_cycle THEN 0
                ELSE RebaseInstant(last_emitting_cycle, shift)
          /\ market_rows' = RebaseRows(market_rows, shift)
          /\ posted_content' = RebaseStamps(posted_content, shift)
          /\ past_predictions' = RebaseStamps(past_predictions, shift)
          /\ inserted' = [i \in DOMAIN inserted |->
                             RebaseInstant(inserted[i], shift)]
    /\ cycles' = IF cycles < MaxCycles THEN cycles + 1 ELSE cycles
    /\ previous_market_data' = market_data
    /\ market_data' = EmptyDict
    /\ available_tokens' = <<>>
    /\ token_to_analyze' = ""
    /\ decision' = NoDecision
    /\ analysis' = NoText
    /\ retry_count' = 0
    /\ baseline_before' = EmptyDict
    /\ evaluated' = <<>>
    /\ posted_in_cycle' = 0
    /\ emitted_in_cycle' = FALSE
    /\ last_cycle_end' = 0
    /\ emit_snapshot_before' = EmptyDict
    /\ filter_call' = NoCall
    /\ callback' = None
    /\ pc' = "loop"
    /\ UNCHANGED <<last_market_data, tweets, faults, utc_offset,
                   emit_snapshot, indicators, start, db>>

NextQuiet ==
    \/ QuietFetch
    \/ QuietEvaluate
    \/ TokensExhausted
    \/ AnalyzeSucceeds
    \/ Filter
    \/ PostSucceeds
    \/ QuietSleep

\* a token is at hand and _should_post_update is about to be called
EvaluationPending == pc = "tokens" /\ available_tokens # <<>>

\* start() is one thread in a while True loop (line 1332): the step at
\* hand is taken, whichever it is. For the evaluation the weak fairness
\* condition is written with its enabling condition in full: the call is
\* possible exactly when a token is at hand
SpecQuiet ==
    /\ InitQuiet /\ [][NextQuiet]_vars
    /\ WF_vars(QuietFetch)
    /\ WF_vars(TokensExhausted)
    /\ WF_vars(AnalyzeSucceeds)
    /\ WF_vars(Filter)
    /\ WF_vars(PostSucceeds)
    /\ WF_vars(QuietSleep)
    /\ ([]<>(~EvaluationPending) \/ []<><<QuietEvaluate>>_vars)

\* the latest evaluation found one of conditions 1-5
ConditionHeld ==
    /\ decision.should_post
    /\ decision.trigger_reason # <<"initial_post">>
    /\ decision.trigger_reason # <<"regular_interval">>

RegularIntervalDecided == decision.trigger_reason = <<"regular_interval">>

\* C38: on a quiet market the engine does not stay silent forever: while
\* the main loop keeps running and the evaluations of every cycle take
\* less than the base interval, either one of conditions 1-5 holds at some
\* evaluation or a decision with reason regular_interval eventually occurs.
C38_RegularIntervalEventually == <>(ConditionHeld \/ RegularIntervalDecided)

====
